---- MODULE Spec2Model ----
(***************************************************************************)
(* userserversd: a per-user process supervisor.                            *)
(*                                                                         *)
(* The module models the daemon's registry (ServiceManager), the services  *)
(* it owns (Service), the configuration file it persists to, the           *)
(* connection handlers that dispatch commands under the registry mutex     *)
(* and the supervisor thread that shuts the daemon down.                   *)
(*                                                                         *)
(*   Spec      registry, guard, handlers, acceptor, signals, shutdown      *)
(*   ConnSpec  one connection at the byte level: framing, decoding,        *)
(*             dispatch and responses                                      *)
(***************************************************************************)
EXTENDS Integers, Sequences, FiniteSets, TLC

(***************************************************************************)
(* Bounds of the model.                                                    *)
(***************************************************************************)
\* connections the acceptor accepts
NConn == 2
\* exit codes that may be queued in the shutdown channel at one time
MaxChan == 1
\* writes the client of the byte-level connection makes
MaxWrites == 2
\* calls of start() and stop() made on the Service taken alone
MaxOps == 3
\* sleeps of Command::stop within one deadline
MaxPolls == 2
\* chunks of output a pipe holds before a write to it blocks
PipeCap == 1
\* chunks of output a command writes to one stream
MaxOut == 2
\* bytes of a chunk (the reader threads' buffer, scaled down)
ChunkLen == 2
\* commands one Service spawns over its life
MaxCmds == 2
\* chunks the reader threads of one Service read, all together
MaxChunks == 3

Names == {"a", "b"}
Conns == 1..NConn

(***************************************************************************)
(* Service definitions (ipc::Service / service::Service's persisted part). *)
(***************************************************************************)
MkDef(k, wd, c, sc, pc) ==
    [kind |-> k, working_directory |-> wd, command |-> c,
     start_command |-> sc, stop_command |-> pc]

NoDef == MkDef("", "", <<>>, <<>>, <<>>)
SyncDef == MkDef("Synchronous", "/tmp", <<"sh">>, <<>>, <<>>)
\* a Synchronous service whose command sequence is empty
SyncEmptyDef == MkDef("Synchronous", "/tmp", <<>>, <<>>, <<>>)
AsyncDef == MkDef("Asynchronous", "/srv", <<>>, <<"up">>, <<"down">>)

\* an Asynchronous service whose stop command sequence is empty
AsyncNoStopDef == MkDef("Asynchronous", "/srv", <<>>, <<"up">>, <<>>)

\* the definitions clients of the full daemon send
Defs == {SyncDef, SyncEmptyDef, AsyncDef}

(***************************************************************************)
(* Service: definition plus runtime state.  child is the Option<Command>   *)
(* of a Synchronous service: "None", or a handle whose process is          *)
(* "Alive" or has "Exited" on its own (the handle is still held).          *)
(***************************************************************************)
Service_new(def) == [def |-> def, async_running |-> FALSE, child |-> "None"]

is_running(s) ==
    IF s.def.kind = "Synchronous" THEN s.child # "None" ELSE s.async_running

\* Command::start: command[0] on an empty slice panics; spawn may fail.
CommandStart(argv) ==
    IF argv = <<>> THEN {"Panic"} ELSE {"Spawned", "IOError"}

\* a start that does not look at is_running
Service_start_unchecked(s) ==
    IF s.def.kind = "Synchronous"
    THEN { IF o = "Spawned" THEN [svc |-> [s EXCEPT !.child = "Alive"], r |-> "Ok"]
           ELSE [svc |-> s, r |-> o] : o \in CommandStart(s.def.command) }
    ELSE { IF o = "Spawned" THEN [svc |-> s, r |-> "Await"]
           ELSE [svc |-> s, r |-> o] : o \in CommandStart(s.def.start_command) }

\* Service::start up to the point where it returns or blocks in wait().
\* A set of [svc, r]: r is Ok, an error, Panic, or Await (blocked in wait()).
Service_start(s) ==
    IF is_running(s) THEN {[svc |-> s, r |-> "ServiceAlreadyRunning"]}
    ELSE IF s.def.kind = "Synchronous"
    THEN { IF o = "Spawned" THEN [svc |-> [s EXCEPT !.child = "Alive"], r |-> "Ok"]
           ELSE [svc |-> s, r |-> o] : o \in CommandStart(s.def.command) }
    ELSE { IF o = "Spawned" THEN [svc |-> s, r |-> "Await"]
           ELSE [svc |-> s, r |-> o] : o \in CommandStart(s.def.start_command) }

\* a start_asynchronous that stores the handle of its start command
StartAsyncFinish_keeps_handle(s, waitOk) ==
    IF waitOk
    THEN [svc |-> [s EXCEPT !.async_running = TRUE, !.child = "Alive"], r |-> "Ok"]
    ELSE [svc |-> s, r |-> "IOError"]

\* start_asynchronous after wait() returned: Ok(_) sets the flag whatever the
\* exit status, Err(_) leaves it.
StartAsyncFinish(s, waitOk) ==
    IF waitOk THEN [svc |-> [s EXCEPT !.async_running = TRUE], r |-> "Ok"]
    ELSE [svc |-> s, r |-> "IOError"]

\* Command::stop: Ok(()) unless delivering a signal fails.
CommandStop == {"Ok", "IOError"}

\* (mutant) stop_synchronous that returns Ok without discarding the handle
Service_stop_keeps_child(s) ==
    IF ~is_running(s) THEN {[svc |-> s, r |-> "ServiceNotRunning"]}
    ELSE IF s.def.kind = "Synchronous"
    THEN { [svc |-> s, r |-> o] : o \in CommandStop }
    ELSE { IF o = "Spawned" THEN [svc |-> s, r |-> "Await"]
           ELSE [svc |-> s, r |-> o] : o \in CommandStart(s.def.stop_command) }

\* Service::stop up to the point where it returns or blocks in wait().
Service_stop(s) ==
    IF ~is_running(s) THEN {[svc |-> s, r |-> "ServiceNotRunning"]}
    ELSE IF s.def.kind = "Synchronous"
    THEN { IF o = "Ok" THEN [svc |-> [s EXCEPT !.child = "None"], r |-> "Ok"]
           ELSE [svc |-> s, r |-> o] : o \in CommandStop }
    ELSE { IF o = "Spawned" THEN [svc |-> s, r |-> "Await"]
           ELSE [svc |-> s, r |-> o] : o \in CommandStart(s.def.stop_command) }

StopAsyncFinish(s, waitOk) ==
    IF waitOk THEN [svc |-> [s EXCEPT !.async_running = FALSE], r |-> "Ok"]
    ELSE [svc |-> s, r |-> "IOError"]

(***************************************************************************)
(* The configuration file: absent, or a text of tokens.  serde_json writes *)
(* "{" entry ... entry "}" with the entries in HashMap iteration order.    *)
(***************************************************************************)
Tok(t, n, d) == [def |-> d, t |-> t, name |-> n]
LBrace == Tok("{", "", NoDef)
RBrace == Tok("}", "", NoDef)
Absent == <<Tok("absent", "", NoDef)>>

DefsOf(svcs) == [n \in DOMAIN svcs |-> svcs[n].def]

\* the orders in which a HashMap with these keys may be iterated
Orders(S) ==
    { o \in [1..Cardinality(S) -> S] : \A i, j \in 1..Cardinality(S) : i # j => o[i] # o[j] }

\* serde_json::to_string(&self.services), one text per iteration order
Serialize(svcs) ==
    { <<LBrace>> \o [i \in 1..Len(o) |-> Tok("entry", o[i], svcs[o[i]].def)] \o <<RBrace>>
      : o \in Orders(DOMAIN svcs) }

\* a from_str that stops after the first entry of the map
Deserialize_first_entry_only(text) ==
    LET n == Len(text)
        wellFormed == /\ n >= 2
                      /\ text[1] = LBrace
                      /\ text[n] = RBrace
                      /\ \A i \in 2..(n - 1) : text[i].t = "entry"
        keys == { text[i].name : i \in 2..(n - 1) } \cap
                (IF n >= 3 THEN {text[2].name} ELSE {})
    IN IF wellFormed
       THEN [ok |-> TRUE, map |-> [k \in keys |-> text[2].def]]
       ELSE [ok |-> FALSE, map |-> [k \in {} |-> NoDef]]

\* serde_json::from_str::<HashMap<String, Service>>: [ok, map]
Deserialize(text) ==
    LET n == Len(text)
        wellFormed == /\ n >= 2
                      /\ text[1] = LBrace
                      /\ text[n] = RBrace
                      /\ \A i \in 2..(n - 1) : text[i].t = "entry"
        keys == { text[i].name : i \in 2..(n - 1) }
        last(k) == CHOOSE i \in 2..(n - 1) :
                      /\ text[i].name = k
                      /\ \A j \in 2..(n - 1) : text[j].name = k => j <= i
    IN IF wellFormed
       THEN [ok |-> TRUE, map |-> [k \in keys |-> text[last(k)].def]]
       ELSE [ok |-> FALSE, map |-> [k \in {} |-> NoDef]]

\* ServiceManager::flush: a set of [config, fl].  The path or File::create may
\* fail (file untouched); File::create truncates, so a failed write!() of the
\* text leaves the file empty; otherwise the whole text is written.
flush(svcs, cfg) ==
    { [config |-> cfg, fl |-> "NotOpened"],
      [config |-> <<>>, fl |-> "WriteFailed"] }
    \cup { [config |-> t, fl |-> "Written"] : t \in Serialize(svcs) }

(***************************************************************************)
(* ipc::response::Response                                                 *)
(***************************************************************************)
EmptyMap == [n \in {} |-> NoDef]
KindNone == [tag |-> "None", service |-> NoDef, running |-> FALSE, services |-> EmptyMap]
KindServiceStatus(d, r) ==
    [tag |-> "ServiceStatus", service |-> d, running |-> r, services |-> EmptyMap]
KindServiceList(m) ==
    [tag |-> "ServiceList", service |-> NoDef, running |-> FALSE, services |-> m]
Response(status, kind) == [kind |-> kind, status |-> status]
NoResponse == Response("", KindNone)

\* handle_client's wrapping of the operation's Result
RespondOk(kind) == Response("Ok", kind)
\* (an error wrapped with an empty service list for its kind)
RespondErr_with_list(status) == Response(status, KindServiceList(EmptyMap))
RespondErr(status) == Response(status, KindNone)

(***************************************************************************)
(* ipc::command::Command                                                   *)
(***************************************************************************)
Cmd(t, n, d) == [def |-> d, name |-> n, type |-> t]
NoCmd == Cmd("", "", NoDef)
AddCommands ==
    { Cmd(IF d.kind = "Synchronous" THEN "AddSynchronousService"
                                    ELSE "AddAsynchronousService", n, d)
      : n \in Names, d \in Defs }
AddTypes == {"AddSynchronousService", "AddAsynchronousService"}
MutatingTypes == AddTypes \cup {"RemoveService"}
NameTypes == {"RemoveService", "StartService", "StopService", "RestartService",
              "GetServiceStatus"}
NameCommands == { Cmd(t, n, NoDef) : t \in NameTypes, n \in Names }
ListCommand == Cmd("ListServices", "", NoDef)
Commands == AddCommands \cup NameCommands \cup {ListCommand}

(***************************************************************************)
(* ServiceManager operations.  Each yields the set of its possible         *)
(* outcomes [services, config, res, next, phase, sres, fl]:                *)
(*   next   "done" (returned res), "await" (blocked in Child::wait of an   *)
(*          Asynchronous start or stop command) or "panic"                 *)
(*   phase  the Service operation that is blocked ("start" or "stop")      *)
(*   sres   what the last Service operation returned ("None": not called)  *)
(*   fl     what flush did ("None": not called)                            *)
(***************************************************************************)
Outcome(svcs, cfg, res, next, phase, sres, fl) ==
    [config |-> cfg, fl |-> fl, services |-> svcs, res |-> res, next |-> next,
     phase |-> phase, sres |-> sres]

Insert(svcs, name, s) ==
    [n \in DOMAIN svcs \cup {name} |-> IF n = name THEN s ELSE svcs[n]]
Delete(svcs, name) == [n \in DOMAIN svcs \ {name} |-> svcs[n]]

\* A Service operation that returned sts (a set of [svc, r]) on svcs[name]:
\* a panic unwinds, a blocked wait() suspends, otherwise Cont continues.
Run(svcs, cfg, name, phase, sts, Cont(_)) ==
    UNION { IF st.r = "Panic"
            THEN {Outcome(svcs, cfg, NoResponse, "panic", phase, "Panic", "None")}
            ELSE IF st.r = "Await"
            THEN {Outcome(svcs, cfg, NoResponse, "await", phase, "Await", "None")}
            ELSE Cont(st)
          : st \in sts }

\* an add that takes the entry out again when the file was not written
add_tail_rollback(svcs, cfg, name, st) ==
    LET svcs1 == [svcs EXCEPT ![name] = st.svc]
    IN { Outcome(IF f.fl = "Written" THEN svcs1 ELSE Delete(svcs, name),
                 f.config, RespondOk(KindNone), "done", "start", st.r, f.fl)
         : f \in flush(svcs1, cfg) }

\* add_*: after start() returned: log an error, flush, Ok(None)
add_tail(svcs, cfg, name, st) ==
    LET svcs1 == [svcs EXCEPT ![name] = st.svc]
    IN { Outcome(svcs1, f.config, RespondOk(KindNone), "done", "start", st.r, f.fl)
         : f \in flush(svcs1, cfg) }

\* (mutant) add_* without the contains_key check: the entry is overwritten
add_service_overwrite(svcs, cfg, name, def) ==
    LET ins == Insert(svcs, name, Service_new(def))
        Cont(st) == add_tail(ins, cfg, name, st)
    IN Run(ins, cfg, name, "start", Service_start(ins[name]), Cont)

add_service(svcs, cfg, name, def) ==
    IF name \in DOMAIN svcs
    THEN {Outcome(svcs, cfg, RespondErr("ServiceAlreadyExists"), "done", "", "None", "None")}
    ELSE LET ins == Insert(svcs, name, Service_new(def))
             Cont(st) == add_tail(ins, cfg, name, st)
         IN Run(ins, cfg, name, "start", Service_start(ins[name]), Cont)

add_synchronous(svcs, cfg, name, def) == add_service(svcs, cfg, name, def)
add_asynchronous(svcs, cfg, name, def) == add_service(svcs, cfg, name, def)

\* (mutant) the lookup fails with the wrong status
get_service_mut_wrong_status(svcs, name) ==
    IF name \in DOMAIN svcs THEN "Ok" ELSE "ServiceAlreadyExists"

\* get_service_mut / get_service: the lookup every by-name operation starts with
get_service_mut(svcs, name) ==
    IF name \in DOMAIN svcs THEN "Ok" ELSE "ServiceDoesNotExist"

NotFound(svcs, cfg, name) ==
    {Outcome(svcs, cfg, RespondErr(get_service_mut(svcs, name)), "done", "", "None", "None")}

\* (mutant) remove that flushes before it deletes the entry
remove_tail_flush_first(svcs, cfg, name, st) ==
    { Outcome(Delete(svcs, name), f.config, RespondOk(KindNone), "done", "stop", st.r, f.fl)
      : f \in flush(svcs, cfg) }

\* remove: after the stop (if any) returned: delete the entry, flush, Ok(None)
remove_tail(svcs, cfg, name, st) ==
    LET svcs1 == Delete(svcs, name)
    IN { Outcome(svcs1, f.config, RespondOk(KindNone), "done", "stop", st.r, f.fl)
         : f \in flush(svcs1, cfg) }

remove(svcs, cfg, name) ==
    IF get_service_mut(svcs, name) # "Ok" THEN NotFound(svcs, cfg, name)
    ELSE LET Cont(st) == remove_tail(svcs, cfg, name, st)
         IN IF is_running(svcs[name])
            THEN Run(svcs, cfg, name, "stop", Service_stop(svcs[name]), Cont)
            ELSE Cont([svc |-> svcs[name], r |-> "None"])

\* a start, stop or restart that saves the registry before it answers
op_tail_flushes(svcs, cfg, name, phase, st) ==
    LET svcs1 == [svcs EXCEPT ![name] = st.svc]
    IN { Outcome(svcs1, f.config, RespondOk(KindNone), "done", phase, st.r, f.fl)
         : f \in flush(svcs1, cfg) }

\* start, stop, restart: after the Service operation returned: log an error, Ok(None)
op_tail(svcs, cfg, name, phase, st) ==
    {Outcome([svcs EXCEPT ![name] = st.svc], cfg, RespondOk(KindNone), "done",
             phase, st.r, "None")}

start(svcs, cfg, name) ==
    IF get_service_mut(svcs, name) # "Ok" THEN NotFound(svcs, cfg, name)
    ELSE LET Cont(st) == op_tail(svcs, cfg, name, "start", st)
         IN Run(svcs, cfg, name, "start", Service_start(svcs[name]), Cont)

stop(svcs, cfg, name) ==
    IF get_service_mut(svcs, name) # "Ok" THEN NotFound(svcs, cfg, name)
    ELSE LET Cont(st) == op_tail(svcs, cfg, name, "stop", st)
         IN Run(svcs, cfg, name, "stop", Service_stop(svcs[name]), Cont)

\* a restart that calls start() whatever stop() returned
restart_tail_always_starts(svcs, cfg, name, st) ==
    LET svcs1 == [svcs EXCEPT ![name] = st.svc]
        Cont(st2) == op_tail(svcs1, cfg, name, "start", st2)
    IN Run(svcs1, cfg, name, "start", Service_start(st.svc), Cont)

\* Service::restart after stop() returned: self.stop()?; self.start()
restart_tail(svcs, cfg, name, st) ==
    IF st.r = "Ok"
    THEN LET svcs1 == [svcs EXCEPT ![name] = st.svc]
             Cont(st2) == op_tail(svcs1, cfg, name, "start", st2)
         IN Run(svcs1, cfg, name, "start", Service_start(st.svc), Cont)
    ELSE op_tail(svcs, cfg, name, "stop", st)

restart(svcs, cfg, name) ==
    IF get_service_mut(svcs, name) # "Ok" THEN NotFound(svcs, cfg, name)
    ELSE LET Cont(st) == restart_tail(svcs, cfg, name, st)
         IN Run(svcs, cfg, name, "stop", Service_stop(svcs[name]), Cont)

\* (mutant) get_status that reports the async_running flag for every kind
get_status_flag_only(svcs, cfg, name) ==
    IF get_service_mut(svcs, name) # "Ok" THEN NotFound(svcs, cfg, name)
    ELSE {Outcome(svcs, cfg,
                  RespondOk(KindServiceStatus(svcs[name].def, svcs[name].async_running)),
                  "done", "", "None", "None")}

get_status(svcs, cfg, name) ==
    IF get_service_mut(svcs, name) # "Ok" THEN NotFound(svcs, cfg, name)
    ELSE {Outcome(svcs, cfg,
                  RespondOk(KindServiceStatus(svcs[name].def, is_running(svcs[name]))),
                  "done", "", "None", "None")}

list_services(svcs, cfg) ==
    {Outcome(svcs, cfg, RespondOk(KindServiceList(DefsOf(svcs))), "done", "", "None", "None")}

\* handle_client's match on the command
dispatch(svcs, cfg, cmd) ==
    CASE cmd.type = "AddSynchronousService" -> add_synchronous(svcs, cfg, cmd.name, cmd.def)
      [] cmd.type = "AddAsynchronousService" -> add_asynchronous(svcs, cfg, cmd.name, cmd.def)
      [] cmd.type = "RemoveService" -> remove(svcs, cfg, cmd.name)
      [] cmd.type = "StartService" -> start(svcs, cfg, cmd.name)
      [] cmd.type = "StopService" -> stop(svcs, cfg, cmd.name)
      [] cmd.type = "RestartService" -> restart(svcs, cfg, cmd.name)
      [] cmd.type = "GetServiceStatus" -> get_status(svcs, cfg, cmd.name)
      [] cmd.type = "ListServices" -> list_services(svcs, cfg)

\* The operation of cmd, blocked in wait() of its start or stop command, when
\* wait() returns.
resume(svcs, cfg, cmd, phase, waitOk) ==
    LET name == cmd.name
        st == IF phase = "start" THEN StartAsyncFinish(svcs[name], waitOk)
                                 ELSE StopAsyncFinish(svcs[name], waitOk)
    IN CASE cmd.type \in AddTypes ->
              add_tail(svcs, cfg, name, st)
         [] cmd.type = "RemoveService" -> remove_tail(svcs, cfg, name, st)
         [] cmd.type = "RestartService" /\ phase = "stop" -> restart_tail(svcs, cfg, name, st)
         [] OTHER -> op_tail(svcs, cfg, name, phase, st)

(***************************************************************************)
(* State.                                                                  *)
(***************************************************************************)
VARIABLES
    services,   \* ServiceManager.services: name -> Service
    config,     \* the configuration file
    guard,      \* the threads holding the Mutex<ServiceManager> (at most one)
    poisoned,   \* the mutex is poisoned: a thread panicked holding it
    h,          \* per connection, its handler thread
    pre,        \* history: services and config when the guard was last taken
    last,       \* history: the accepted Add* or Remove the next command follows
    mpc,        \* main thread: where it is
    mtodo,      \* main thread: names its loop over services has not visited
    mcur,       \* main thread: the name whose command it is waiting on
    mcode,      \* main thread: the exit code received
    chan,       \* the mpsc channel of exit codes
    apc,        \* server (acceptor) thread: where it is
    sock,       \* the socket file
    exit_code,  \* -1 while the process runs, then its exit code
    conn,       \* the first connection's stream, seen byte by byte
    unit,       \* one Service with the process of its child, seen step by step
    run,        \* one Command with its reader threads and the thread waiting on it
    logs        \* one Service's log buffer with the reader threads appending to it

vars == <<services, config, guard, poisoned, h, pre, last, mpc, mtodo, mcur,
          mcode, chan, apc, sock, exit_code, conn, unit, run, logs>>

Main == NConn + 1

EmptyServices == [n \in {} |-> Service_new(NoDef)]

HRec(pc, cmd, res, phase, sres, fl) ==
    [pc |-> pc, fl |-> fl, res |-> res, phase |-> phase, sres |-> sres, cmd |-> cmd]
Unborn == HRec("unborn", NoCmd, NoResponse, "", "None", "None")
Reading == HRec("read", NoCmd, NoResponse, "", "None", "None")
Closed == HRec("closed", NoCmd, NoResponse, "", "None", "None")
Panicked == HRec("panicked", NoCmd, NoResponse, "", "None", "None")

PreNone == [config |-> Absent, services |-> EmptyServices]
NoLast == [fl |-> "None", sres |-> "None", cmd |-> NoCmd]

\* the stream of a connection: nothing written, nothing read; broken: the
\* socket is in a state in which read() returns an error
ConnRec(wire, open, nw, stream, bytes, decoded, out) ==
    [wire |-> wire, open |-> open, nw |-> nw, stream |-> stream, bytes |-> bytes,
     decoded |-> decoded, out |-> out, broken |-> FALSE]
ConnIdle == ConnRec(<<>>, TRUE, 0, <<>>, <<>>, <<>>, <<>>)

\* One Service and the processes it has spawned.  s is the Service; pc is
\* where the call in progress is; os is the process behind s.child ("none",
\* "alive", "exited": dead and not waited on, "reaped"); ignores: that process
\* ignores SIGINT; round, polls, nint, observed, late and killed describe the
\* Command::stop in progress or last made; zombies and orphans count the
\* processes whose handle was dropped while dead and not waited on, or alive;
\* op, res and exit are the last call, its result and the exit of the
\* command it waited on; ops counts the calls; gone: the process had exited
\* when the last stop() was called.
UnitNew(def) ==
    [pc |-> "idle", s |-> Service_new(def), res |-> "", op |-> "", ops |-> 0,
     exit |-> "none", os |-> "none", ignores |-> FALSE, round |-> 0, polls |-> 0,
     nint |-> 0, observed |-> FALSE, late |-> FALSE, killed |-> FALSE,
     zombies |-> 0, orphans |-> 0, gone |-> FALSE]

UnitIdle == UnitNew(NoDef)

\* One Command as Command::start returns it: lock is the holder of the
\* Mutex<process::Child>; waiter is the thread that called Command::start and
\* goes on to Command::wait; rd is where each reader thread is ("lock": about
\* to take the guard to take its stream, "read", "done"); todo is what the
\* command has still to write to each stream, first the stream it writes
\* first, pipe what each pipe holds, proc the command's process.
RunNew(todoOut, todoErr, first) ==
    [first |-> first, lock |-> "none", waiter |-> "spawned",
     rd |-> [stdout |-> "lock", stderr |-> "lock"],
     todo |-> [stdout |-> todoOut, stderr |-> todoErr],
     pipe |-> [stdout |-> 0, stderr |-> 0], proc |-> "running"]

RunIdle == RunNew(0, 0, "stdout")

\* One Service's log buffer (Service.logs, shared by every Command the
\* Service spawns): output is the String, byte by byte, each byte named by the
\* reader that appended it, its chunk and its place in the chunk; holder is
\* the holder of the buffer's mutex; snap is the last get_logs() result;
\* started counts the commands spawned, nread the chunks read; rd gives each reader thread's place
\* ("idle": not spawned, "read", "lock", "append", "done"), the chunks it has
\* read (i) and the bytes of the last one it has appended (j).
ReaderIdle == [pc |-> "idle", i |-> 0, j |-> 0]
LogsNew(readers) ==
    [rd |-> [r \in readers |-> ReaderIdle], output |-> <<>>, holder |-> "none",
     snap |-> <<>>, started |-> 0, nread |-> 0]
LogsIdle == LogsNew({})

\* configuration files a previous run (or an editor) may have left
InitConfigs ==
    {Absent, <<LBrace>>}
    \cup Serialize([n \in {"a"} |-> Service_new(SyncDef)])
    \cup Serialize([n \in Names |-> Service_new(IF n = "a" THEN AsyncDef ELSE SyncDef)])

Init ==
    /\ services = EmptyServices
    /\ config \in InitConfigs
    /\ guard = {}
    /\ poisoned = FALSE
    /\ h = [c \in Conns |-> Unborn]
    /\ pre = PreNone
    /\ last = NoLast
    /\ mpc = "new"
    /\ mtodo = {}
    /\ mcur = ""
    /\ mcode = 0
    /\ chan = <<>>
    /\ apc = "unborn"
    /\ sock = "none"
    /\ exit_code = -1
    /\ conn = ConnIdle
    /\ unit = UnitIdle
    /\ run = RunIdle
    /\ logs = LogsIdle

Up == exit_code = -1

\* (mutant) a lock that excludes nobody
CanLock_NoExclusion(t) == TRUE

\* Mutex::lock returns to thread t
CanLock(t) == guard = {}

(***************************************************************************)
(* ServiceManager::new, run by the main thread before any other thread     *)
(* exists.                                                                 *)
(***************************************************************************)
\* a new that saves the empty registry over a file it could not parse
New_rewrites_unparsed ==
    /\ Up /\ mpc = "new"
    /\ LET p == Deserialize(config)
           loaded == IF config # Absent /\ p.ok
                     THEN [n \in DOMAIN p.map |-> Service_new(p.map[n])]
                     ELSE EmptyServices
       IN /\ services' = loaded
          /\ mtodo' = DOMAIN loaded
          /\ config' \in IF config # Absent /\ ~p.ok
                         THEN Serialize(EmptyServices) ELSE {config}
    /\ mpc' = "new_start"
    /\ UNCHANGED <<logs, run, unit, conn, guard, poisoned, h, pre, last, mcur, mcode, chan, apc,
                   sock, exit_code>>

New ==
    /\ Up /\ mpc = "new"
    /\ LET p == Deserialize(config)
           loaded == IF config # Absent /\ p.ok
                     THEN [n \in DOMAIN p.map |-> Service_new(p.map[n])]
                     ELSE EmptyServices
       IN /\ services' = loaded
          /\ mtodo' = DOMAIN loaded
    /\ mpc' = "new_start"
    /\ UNCHANGED <<logs, run, unit, conn, config, guard, poisoned, h, pre, last, mcur, mcode, chan, apc,
                   sock, exit_code>>

\* one iteration of new's loop over the loaded services
NewStart ==
    /\ Up /\ mpc = "new_start" /\ mtodo # {}
    /\ \E n \in mtodo : \E st \in Service_start(services[n]) :
          CASE st.r = "Panic" ->
                 /\ exit_code' = 101
                 /\ UNCHANGED <<services, mtodo, mcur, mpc>>
            [] st.r = "Await" ->
                 /\ mpc' = "new_await" /\ mcur' = n
                 /\ UNCHANGED <<services, mtodo, exit_code>>
            [] OTHER ->
                 /\ services' = [services EXCEPT ![n] = st.svc]
                 /\ mtodo' = mtodo \ {n}
                 /\ UNCHANGED <<mcur, mpc, exit_code>>
    /\ UNCHANGED <<logs, run, unit, conn, config, guard, poisoned, h, pre, last, mcode, chan, apc, sock>>

\* wait() on a loaded Asynchronous service's start command returns
NewAwait ==
    /\ Up /\ mpc = "new_await"
    /\ \E waitOk \in BOOLEAN :
          services' = [services EXCEPT
                          ![mcur] = StartAsyncFinish(services[mcur], waitOk).svc]
    /\ mtodo' = mtodo \ {mcur}
    /\ mcur' = ""
    /\ mpc' = "new_start"
    /\ UNCHANGED <<logs, run, unit, conn, config, guard, poisoned, h, pre, last, mcode, chan, apc, sock,
                   exit_code>>

NewDone ==
    /\ Up /\ mpc = "new_start" /\ mtodo = {}
    /\ mpc' = "socket_path"
    /\ UNCHANGED <<logs, run, unit, conn, services, config, guard, poisoned, h, pre, last, mtodo, mcur,
                   mcode, chan, apc, sock, exit_code>>

(***************************************************************************)
(* main, lines 131-162: the socket path, the server thread, the signal     *)
(* handlers and the signal thread.  get_socket_path or Signals::new        *)
(* failing ends the process with exit(1).                                  *)
(***************************************************************************)
Setup ==
    /\ Up /\ mpc = "socket_path"
    /\ \/ /\ mpc' = "recv" /\ apc' = "bind"
          /\ UNCHANGED exit_code
       \/ /\ exit_code' = 1
          /\ UNCHANGED <<mpc, apc>>
    /\ UNCHANGED <<logs, run, unit, conn, services, config, guard, poisoned, h, pre, last, mtodo, mcur,
                   mcode, chan, sock>>

SignalsInstalled ==
    mpc \in {"recv", "lock", "stop_all", "stop_await", "exit"}

\* main calls recv() once: a code sent after it returned is never read, so
\* sends are modelled while main is in recv(), up to MaxChan queued codes
CanSend == mpc = "recv" /\ Len(chan) < MaxChan

\* SIGINT or SIGTERM is delivered: the signal thread sends 0
Signal ==
    /\ Up /\ SignalsInstalled /\ CanSend
    /\ chan' = Append(chan, 0)
    /\ UNCHANGED <<logs, run, unit, conn, services, config, guard, poisoned, h, pre, last, mpc, mtodo,
                   mcur, mcode, apc, sock, exit_code>>

(***************************************************************************)
(* server: bind, then accept connections and spawn their handlers.         *)
(***************************************************************************)
Bind ==
    /\ Up /\ apc = "bind"
    /\ \/ /\ apc' = "accept" /\ sock' = "bound"
          /\ UNCHANGED chan
       \/ /\ CanSend
          /\ chan' = Append(chan, 1) /\ apc' = "spin"
          /\ UNCHANGED sock
    /\ UNCHANGED <<logs, run, unit, conn, services, config, guard, poisoned, h, pre, last, mpc, mtodo,
                   mcur, mcode, exit_code>>

Accept ==
    /\ Up /\ apc = "accept"
    /\ \E c \in Conns :
          /\ h[c].pc = "unborn"
          /\ \A d \in Conns : d < c => h[d].pc # "unborn"
          /\ h' = [h EXCEPT ![c] = Reading]
    /\ UNCHANGED <<logs, run, unit, conn, services, config, guard, poisoned, pre, last, mpc, mtodo, mcur,
                   mcode, chan, apc, sock, exit_code>>

AcceptFail ==
    /\ Up /\ apc = "accept" /\ CanSend
    /\ chan' = Append(chan, 1) /\ apc' = "spin"
    /\ UNCHANGED <<logs, run, unit, conn, services, config, guard, poisoned, h, pre, last, mpc, mtodo,
                   mcur, mcode, sock, exit_code>>

(***************************************************************************)
(* handle_client: one thread per accepted connection.  A handler that has  *)
(* decoded a command takes the guard, runs the operation and, holding the  *)
(* guard to the end of the loop body, writes the response.                 *)
(***************************************************************************)
\* the state after the operation of cmd, run by handler c, came to outcome o
Apply(c, cmd, o) ==
    /\ services' = o.services
    /\ config' = o.config
    /\ CASE o.next = "panic" ->
              \* the thread unwinds: the guard is dropped and the mutex poisoned
              /\ poisoned' = TRUE
              /\ guard' = guard \ {c}
              /\ h' = [h EXCEPT ![c] = HRec("panicked", cmd, NoResponse, o.phase,
                                            "Panic", "None")]
         [] o.next = "await" ->
              /\ guard' = {c}
              /\ h' = [h EXCEPT ![c] = HRec("await", cmd, NoResponse, o.phase,
                                            "Await", "None")]
              /\ UNCHANGED poisoned
         [] OTHER ->
              /\ guard' = {c}
              /\ h' = [h EXCEPT ![c] = HRec("write", cmd, o.res, o.phase,
                                            o.sres, o.fl)]
              /\ UNCHANGED poisoned

\* lines 22-70: a decoded command, service_manager.lock().unwrap(), the match
Handle(c, cmd) ==
    /\ Up /\ h[c].pc = "read"
    /\ CanLock(c) /\ ~poisoned
    /\ pre' = [config |-> config, services |-> services]
    /\ last' = IF cmd.type = "GetServiceStatus" THEN last ELSE NoLast
    /\ \E o \in dispatch(services, config, cmd) : Apply(c, cmd, o)
    /\ UNCHANGED <<logs, run, unit, conn, mpc, mtodo, mcur, mcode, chan, apc, sock, exit_code>>

AddSynchronousService(c) ==
    \E cmd \in AddCommands : cmd.type = "AddSynchronousService" /\ Handle(c, cmd)
AddAsynchronousService(c) ==
    \E cmd \in AddCommands : cmd.type = "AddAsynchronousService" /\ Handle(c, cmd)
RemoveService(c) == \E n \in Names : Handle(c, Cmd("RemoveService", n, NoDef))
StartService(c) == \E n \in Names : Handle(c, Cmd("StartService", n, NoDef))
StopService(c) == \E n \in Names : Handle(c, Cmd("StopService", n, NoDef))
RestartService(c) == \E n \in Names : Handle(c, Cmd("RestartService", n, NoDef))
GetServiceStatus(c) == \E n \in Names : Handle(c, Cmd("GetServiceStatus", n, NoDef))
ListServices(c) == Handle(c, ListCommand)

\* lock() on the poisoned mutex returns Err: unwrap() panics, the thread ends
LockPoisoned(c) ==
    /\ Up /\ h[c].pc = "read"
    /\ CanLock(c) /\ poisoned
    /\ h' = [h EXCEPT ![c] = Panicked]
    /\ UNCHANGED <<logs, run, unit, conn, services, config, guard, poisoned, pre, last, mpc, mtodo, mcur,
                   mcode, chan, apc, sock, exit_code>>

\* wait() on the Asynchronous start or stop command returns to the handler
Resume(c) ==
    /\ Up /\ h[c].pc = "await"
    /\ \E waitOk \in BOOLEAN :
          \E o \in resume(services, config, h[c].cmd, h[c].phase, waitOk) :
             Apply(c, h[c].cmd, o)
    /\ UNCHANGED <<logs, run, unit, conn, pre, last, mpc, mtodo, mcur, mcode, chan, apc, sock, exit_code>>

\* lines 72-93: the response is written (or the write fails and is logged),
\* the guard is dropped at the end of the loop body
WriteResponse(c) ==
    /\ Up /\ h[c].pc = "write"
    /\ guard' = guard \ {c}
    /\ h' = [h EXCEPT ![c] = Reading]
    /\ pre' = PreNone
    /\ last' = IF h[c].cmd.type \in MutatingTypes /\ h[c].res.status = "Ok"
               THEN [fl |-> h[c].fl, sres |-> h[c].sres, cmd |-> h[c].cmd]
               ELSE NoLast
    /\ UNCHANGED <<logs, run, unit, conn, services, config, poisoned, mpc, mtodo, mcur, mcode, chan, apc,
                   sock, exit_code>>

\* read_from_stream returns Ok(None): the loop breaks and the thread ends
CloseConnection(c) ==
    /\ Up /\ h[c].pc = "read"
    /\ h' = [h EXCEPT ![c] = Closed]
    /\ UNCHANGED <<logs, run, unit, conn, services, config, guard, poisoned, pre, last, mpc, mtodo, mcur,
                   mcode, chan, apc, sock, exit_code>>

\* the process of a Synchronous service exits on its own
ChildExit ==
    /\ Up
    /\ \E n \in DOMAIN services :
          /\ services[n].child = "Alive"
          /\ services' = [services EXCEPT ![n].child = "Exited"]
    /\ UNCHANGED <<logs, run, unit, conn, config, guard, poisoned, h, pre, last, mpc, mtodo, mcur, mcode,
                   chan, apc, sock, exit_code>>

(***************************************************************************)
(* main: the shutdown sequence (lines 168-180).                            *)
(***************************************************************************)
Recv ==
    /\ Up /\ mpc = "recv" /\ chan # <<>>
    /\ mcode' = Head(chan)
    /\ chan' = Tail(chan)
    /\ mpc' = "lock"
    /\ UNCHANGED <<logs, run, unit, conn, services, config, guard, poisoned, h, pre, last, mtodo, mcur,
                   apc, sock, exit_code>>

\* service_manager.lock().unwrap(): a poisoned mutex panics the main thread
LockMain ==
    /\ Up /\ mpc = "lock" /\ CanLock(Main)
    /\ IF poisoned
       THEN /\ exit_code' = 101
            /\ UNCHANGED <<guard, mpc, mtodo, last>>
       ELSE /\ guard' = {Main}
            /\ mpc' = "stop_all"
            /\ mtodo' = DOMAIN services
            /\ last' = NoLast
            /\ UNCHANGED exit_code
    /\ UNCHANGED <<logs, run, unit, conn, services, config, poisoned, h, pre, mcur, mcode, chan, apc, sock>>

\* one iteration of stop_all's loop
StopAllStep ==
    /\ Up /\ mpc = "stop_all" /\ mtodo # {}
    /\ \E n \in mtodo :
          IF is_running(services[n])
          THEN \E st \in Service_stop(services[n]) :
                 CASE st.r = "Panic" ->
                        /\ exit_code' = 101
                        /\ UNCHANGED <<services, mtodo, mcur, mpc>>
                   [] st.r = "Await" ->
                        /\ mpc' = "stop_await" /\ mcur' = n
                        /\ UNCHANGED <<services, mtodo, exit_code>>
                   [] OTHER ->
                        /\ services' = [services EXCEPT ![n] = st.svc]
                        /\ mtodo' = mtodo \ {n}
                        /\ UNCHANGED <<mcur, mpc, exit_code>>
          ELSE /\ mtodo' = mtodo \ {n}
               /\ UNCHANGED <<services, mcur, mpc, exit_code>>
    /\ UNCHANGED <<logs, run, unit, conn, config, guard, poisoned, h, pre, last, mcode, chan, apc, sock>>

\* wait() on an Asynchronous service's stop command returns to stop_all
StopAllAwait ==
    /\ Up /\ mpc = "stop_await"
    /\ \E waitOk \in BOOLEAN :
          services' = [services EXCEPT
                          ![mcur] = StopAsyncFinish(services[mcur], waitOk).svc]
    /\ mtodo' = mtodo \ {mcur}
    /\ mcur' = ""
    /\ mpc' = "stop_all"
    /\ UNCHANGED <<logs, run, unit, conn, config, guard, poisoned, h, pre, last, mcode, chan, apc, sock,
                   exit_code>>

\* stop_all returns: the temporary guard is dropped at the end of line 171
StopAllDone ==
    /\ Up /\ mpc = "stop_all" /\ mtodo = {}
    /\ guard' = guard \ {Main}
    /\ mpc' = "exit"
    /\ UNCHANGED <<logs, run, unit, conn, services, config, poisoned, h, pre, last, mtodo, mcur, mcode,
                   chan, apc, sock, exit_code>>

\* lines 172-179: if exit_code == 0 the socket file is removed, exit(1) when
\* that fails; then exit(exit_code)
Exit ==
    /\ Up /\ mpc = "exit"
    /\ IF mcode = 0
       THEN \/ /\ sock = "bound"
               /\ sock' = "removed" /\ exit_code' = 0
            \/ /\ exit_code' = 1
               /\ UNCHANGED sock
       ELSE /\ exit_code' = mcode
            /\ UNCHANGED sock
    /\ UNCHANGED <<logs, run, unit, conn, services, config, guard, poisoned, h, pre, last, mpc, mtodo,
                   mcur, mcode, chan, apc>>

Next ==
    \/ New \/ NewStart \/ NewAwait \/ NewDone
    \/ Setup \/ Signal
    \/ Bind \/ Accept \/ AcceptFail
    \/ \E c \in Conns : AddSynchronousService(c)
    \/ \E c \in Conns : AddAsynchronousService(c)
    \/ \E c \in Conns : RemoveService(c)
    \/ \E c \in Conns : StartService(c)
    \/ \E c \in Conns : StopService(c)
    \/ \E c \in Conns : RestartService(c)
    \/ \E c \in Conns : GetServiceStatus(c)
    \/ \E c \in Conns : ListServices(c)
    \/ \E c \in Conns : LockPoisoned(c)
    \/ \E c \in Conns : Resume(c)
    \/ \E c \in Conns : WriteResponse(c)
    \/ Recv \/ LockMain \/ StopAllStep \/ StopAllAwait \/ StopAllDone
    \/ Exit

Spec == Init /\ [][Next]_vars

\* Every thread that can take a step takes one: main's steps, the write of a
\* response and, the mutex being handed to a thread that keeps asking for it,
\* main's lock.  Nothing makes the command of an Asynchronous service exit
\* while a handler waits on it.
FairSpec ==
    /\ Spec
    /\ WF_vars(Recv) /\ SF_vars(LockMain)
    /\ WF_vars(StopAllStep) /\ WF_vars(StopAllAwait) /\ WF_vars(StopAllDone)
    /\ WF_vars(Exit)
    /\ WF_vars(\E c \in Conns : WriteResponse(c))


(***************************************************************************)
(* One connection at the byte level.  The daemon is up (main in recv(),    *)
(* the acceptor in accept()), the registry is empty and handler 1 serves   *)
(* the only connection.  conn holds                                        *)
(*   wire     the bytes the client wrote that the handler has not read     *)
(*   open     the client has not closed the socket                         *)
(*   nw       the number of writes the client has made                     *)
(*   stream   history: every byte the client wrote                         *)
(*   bytes    read_from_stream's accumulator during one call               *)
(*   decoded  history: the commands read_from_stream returned              *)
(*   out      history: the responses handed to write_to_stream            *)
(***************************************************************************)
\* the terminator of a frame
Delim == 255

\* serde_json::to_vec of a Command.  A JSON text is abridged to one byte for
\* the variant, one for the name and one for the definition, so that frames
\* differ in length; like any UTF-8 text it never holds the byte 255.
TypeByte(t) ==
    CASE t = "AddSynchronousService" -> 1
      [] t = "AddAsynchronousService" -> 2
      [] t = "RemoveService" -> 3
      [] t = "StartService" -> 4
      [] t = "StopService" -> 5
      [] t = "RestartService" -> 6
      [] t = "GetServiceStatus" -> 7
      [] t = "ListServices" -> 8
NameByte(n) == IF n = "a" THEN 97 ELSE 98
DefByte(d) ==
    CASE d = SyncDef -> 11
      [] d = SyncEmptyDef -> 12
      [] d = AsyncDef -> 13
Encode(cmd) ==
    CASE cmd.type \in AddTypes ->
              <<TypeByte(cmd.type), NameByte(cmd.name), DefByte(cmd.def)>>
      [] cmd.type \in NameTypes -> <<TypeByte(cmd.type), NameByte(cmd.name)>>
      [] OTHER -> <<TypeByte(cmd.type)>>

\* serde_json::from_slice::<Command>: the command the text denotes, or an error
Decode(text) ==
    LET m == { c \in Commands : Encode(c) = text }
    IN IF m = {} THEN [ok |-> FALSE, cmd |-> NoCmd]
       ELSE [ok |-> TRUE, cmd |-> CHOOSE c \in m : TRUE]

\* a text that is not a Command (an opening brace alone)
Malformed == <<123>>

\* the commands the client of this connection sends
ClientCommands ==
    { ListCommand,
      Cmd("GetServiceStatus", "a", NoDef),
      Cmd("AddSynchronousService", "a", SyncDef),
      Cmd("AddSynchronousService", "a", SyncEmptyDef),
      Cmd("AddAsynchronousService", "b", AsyncDef) }

\* the position of the first terminator in s (0: none)
FirstDelim(s) ==
    IF \E i \in 1..Len(s) : s[i] = Delim
    THEN CHOOSE i \in 1..Len(s) : s[i] = Delim /\ \A j \in 1..(i - 1) : s[j] # Delim
    ELSE 0

ConnInit ==
    /\ services = EmptyServices
    /\ config = Absent
    /\ guard = {}
    /\ poisoned = FALSE
    /\ h = [c \in Conns |-> IF c = 1 THEN Reading ELSE Unborn]
    /\ pre = PreNone
    /\ last = NoLast
    /\ mpc = "recv"
    /\ mtodo = {}
    /\ mcur = ""
    /\ mcode = 0
    /\ chan = <<>>
    /\ apc = "accept"
    /\ sock = "bound"
    /\ exit_code = -1
    /\ conn = ConnIdle
    /\ unit = UnitIdle
    /\ run = RunIdle
    /\ logs = LogsIdle

daemonVars == <<services, config, guard, poisoned, h, pre, last, mpc, mtodo, mcur,
                mcode, chan, apc, sock, exit_code>>

\* the client writes chunk to the socket in one write
ClientWrite(chunk) ==
    /\ conn.open /\ conn.nw < MaxWrites
    /\ conn' = [conn EXCEPT !.wire = @ \o chunk, !.stream = @ \o chunk, !.nw = @ + 1]
    /\ UNCHANGED <<daemonVars, unit, run, logs>>

Frame(cmd) == Encode(cmd) \o <<Delim>>

\* one command, terminated
WriteFrame == \E cmd \in ClientCommands : ClientWrite(Frame(cmd))
\* two commands, each terminated, in one write
WriteTwoFrames ==
    \E c1 \in ClientCommands, c2 \in ClientCommands :
       ClientWrite(Frame(c1) \o Frame(c2))
\* the text of a command, its terminator not yet written
WritePartial == \E cmd \in ClientCommands : ClientWrite(Encode(cmd))
\* a terminator alone: it ends the frame begun by an earlier write, if any
WriteDelim == ClientWrite(<<Delim>>)
\* a terminated frame that is not a Command
WriteMalformed == ClientWrite(Malformed \o <<Delim>>)

\* the client closes the socket: bytes already written stay readable
ClientClose ==
    /\ conn.open
    /\ conn' = [conn EXCEPT !.open = FALSE]
    /\ UNCHANGED <<daemonVars, unit, run, logs>>

\* read_from_stream after read_until returned with acc: Ok(None) for no bytes;
\* otherwise the last byte is popped and the rest parsed: Ok(Some(command)),
\* or Err, on which handle_client continues with the next read
ReadReturn(acc, wire) ==
    IF acc = <<>>
    THEN /\ h' = [h EXCEPT ![1] = Closed]
         /\ conn' = [conn EXCEPT !.wire = wire]
    ELSE LET d == Decode(SubSeq(acc, 1, Len(acc) - 1))
         IN IF d.ok
            THEN /\ h' = [h EXCEPT ![1] = HRec("decoded", d.cmd, NoResponse, "",
                                               "None", "None")]
                 /\ conn' = [conn EXCEPT !.wire = wire, !.bytes = <<>>,
                                         !.decoded = Append(@, d.cmd)]
            ELSE /\ conn' = [conn EXCEPT !.wire = wire, !.bytes = <<>>]
                 /\ UNCHANGED h

\* read_until on a BufReader made for this call: the reader takes every byte
\* the socket holds into its buffer (frames here are far shorter than the
\* buffer); with no terminator among them all are appended to bytes and the
\* call reads on; with a terminator the bytes up to and including it are
\* appended, the call returns, and what the buffer held after the terminator
\* is dropped with the reader
ReadFill ==
    /\ Up /\ h[1].pc = "read" /\ conn.wire # <<>>
    /\ LET i == FirstDelim(conn.wire)
       IN IF i = 0
          THEN /\ conn' = [conn EXCEPT !.bytes = @ \o conn.wire, !.wire = <<>>]
               /\ UNCHANGED h
          ELSE ReadReturn(conn.bytes \o SubSeq(conn.wire, 1, i), <<>>)
    /\ UNCHANGED <<logs, run, unit, services, config, guard, poisoned, pre, last, mpc, mtodo, mcur,
                   mcode, chan, apc, sock, exit_code>>

\* end of stream: read_until returns what it has accumulated
ReadEof ==
    /\ Up /\ h[1].pc = "read" /\ conn.wire = <<>> /\ ~conn.open
    /\ ReadReturn(conn.bytes, <<>>)
    /\ UNCHANGED <<logs, run, unit, services, config, guard, poisoned, pre, last, mpc, mtodo, mcur,
                   mcode, chan, apc, sock, exit_code>>

\* lines 28-70: service_manager.lock().unwrap() and the match on the command
Dispatch ==
    /\ Up /\ h[1].pc = "decoded"
    /\ CanLock(1) /\ ~poisoned
    /\ \E o \in dispatch(services, config, h[1].cmd) : Apply(1, h[1].cmd, o)
    /\ UNCHANGED <<logs, run, unit, conn, pre, last, mpc, mtodo, mcur, mcode, chan, apc, sock,
                   exit_code>>

\* lines 72-93: the response goes to write_to_stream, which fails when the
\* client has closed the socket; the failure is logged; the guard is dropped
ConnWrite ==
    /\ Up /\ h[1].pc = "write"
    /\ conn' = [conn EXCEPT !.out = Append(@, [ok |-> conn.open, res |-> h[1].res,
                                               cmd |-> h[1].cmd])]
    /\ guard' = guard \ {1}
    /\ h' = [h EXCEPT ![1] = Reading]
    /\ UNCHANGED <<logs, run, unit, services, config, poisoned, pre, last, mpc, mtodo, mcur, mcode,
                   chan, apc, sock, exit_code>>

ConnNext ==
    \/ WriteFrame \/ WriteTwoFrames \/ WritePartial \/ WriteDelim \/ WriteMalformed
    \/ ClientClose
    \/ ReadFill \/ ReadEof
    \/ Dispatch \/ Resume(1) \/ ConnWrite

ConnSpec == ConnInit /\ [][ConnNext]_vars

\* the text of a command followed by a line feed, with no terminator (what
\* a client printing the JSON text as a line sends)
WriteUnterminated ==
    \E cmd \in ClientCommands : ClientWrite(Encode(cmd) \o <<10>>)

\* the connection with a client that may stop before the terminator
EofNext ==
    \/ WriteFrame \/ WritePartial \/ WriteUnterminated \/ WriteDelim
    \/ ClientClose
    \/ ReadFill \/ ReadEof
    \/ Dispatch \/ Resume(1) \/ ConnWrite

EofSpec == ConnInit /\ [][EofNext]_vars

\* the connection breaks under the handler: the socket is left in an error
\* state and the client is gone
StreamBreaks ==
    /\ conn.open
    /\ conn' = [conn EXCEPT !.open = FALSE, !.broken = TRUE]
    /\ UNCHANGED <<daemonVars, unit, run, logs>>

\* read_until returns the error of read(), read_from_stream returns it with
\* `?`; the operating system may keep the socket in the error state or clear
\* it with the report
ReadError ==
    /\ Up /\ h[1].pc = "read" /\ conn.broken
    /\ h' = [h EXCEPT ![1] = HRec("failed", NoCmd, NoResponse, "", "None", "None")]
    /\ \E b \in BOOLEAN : conn' = [conn EXCEPT !.broken = b, !.bytes = <<>>]
    /\ UNCHANGED <<logs, run, unit, services, config, guard, poisoned, pre, last, mpc, mtodo, mcur,
                   mcode, chan, apc, sock, exit_code>>

\* handle_client, line 25: Err(_) => continue
ReadRetry ==
    /\ Up /\ h[1].pc = "failed"
    /\ h' = [h EXCEPT ![1] = Reading]
    /\ UNCHANGED <<logs, run, unit, conn, services, config, guard, poisoned, pre, last, mpc, mtodo,
                   mcur, mcode, chan, apc, sock, exit_code>>

\* the reads of a socket that is not in an error state
ReadGood == ~conn.broken /\ (ReadFill \/ ReadEof)

\* the connection with a stream that may break
BrokenNext ==
    \/ WriteFrame \/ WritePartial
    \/ ClientClose \/ StreamBreaks
    \/ ReadGood \/ ReadError \/ ReadRetry
    \/ Dispatch \/ Resume(1) \/ ConnWrite

BrokenSpec == ConnInit /\ [][BrokenNext]_vars

\* the handler's thread runs, and the commands it waits on end
BrokenFairSpec ==
    /\ BrokenSpec
    /\ WF_vars(ReadGood) /\ WF_vars(ReadError) /\ WF_vars(ReadRetry)
    /\ WF_vars(Dispatch) /\ WF_vars(Resume(1)) /\ WF_vars(ConnWrite)

(***************************************************************************)
(* One connection at the command level: the daemon is up, the registry is  *)
(* empty and handler 1 serves every command, among them the Add of an      *)
(* Asynchronous service that has no stop command.                          *)
(***************************************************************************)
AddAsynchronousNoStop(c) ==
    \E n \in Names : Handle(c, Cmd("AddAsynchronousService", n, AsyncNoStopDef))

OpNext ==
    \/ AddSynchronousService(1) \/ AddAsynchronousService(1)
    \/ AddAsynchronousNoStop(1)
    \/ RemoveService(1)
    \/ StartService(1) \/ StopService(1) \/ RestartService(1)
    \/ GetServiceStatus(1) \/ ListServices(1)
    \/ Resume(1) \/ WriteResponse(1)

OpSpec == ConnInit /\ [][OpNext]_vars

\* the same commands while the children of Synchronous services may exit
ExitNext == OpNext \/ ChildExit

ExitSpec == ConnInit /\ [][ExitNext]_vars

\* the same commands, a signal and main's shutdown sequence
ShutdownNext ==
    \/ OpNext
    \/ Signal \/ Recv \/ LockMain
    \/ StopAllStep \/ StopAllAwait \/ StopAllDone
    \/ Exit

ShutdownSpec == ConnInit /\ [][ShutdownNext]_vars

(***************************************************************************)
(* One Command between Command::start and the return of Command::wait: the *)
(* two reader threads, the thread that waits, and the command writing its   *)
(* output into the pipes.  The daemon's variables stay as in ConnInit.      *)
(***************************************************************************)
Streams == {"stdout", "stderr"}

PipeInit ==
    /\ services = EmptyServices
    /\ config = Absent
    /\ guard = {}
    /\ poisoned = FALSE
    /\ h = [c \in Conns |-> IF c = 1 THEN Reading ELSE Unborn]
    /\ pre = PreNone
    /\ last = NoLast
    /\ mpc = "recv"
    /\ mtodo = {}
    /\ mcur = ""
    /\ mcode = 0
    /\ chan = <<>>
    /\ apc = "accept"
    /\ sock = "bound"
    /\ exit_code = -1
    /\ conn = ConnIdle
    /\ unit = UnitIdle
    /\ run \in { RunNew(o, e, f) : o \in 0..MaxOut, e \in 0..MaxOut, f \in Streams }
    /\ logs = LogsIdle

\* lines 51-57 and 71-77: a reader thread takes the guard, takes its stream
\* out of the Child and drops the guard at the end of the statement
ReaderTake(t) ==
    /\ run.rd[t] = "lock" /\ run.lock = "none"
    /\ run' = [run EXCEPT !.rd[t] = "read"]
    /\ UNCHANGED <<daemonVars, conn, unit, logs>>

\* the bytes of the i-th chunk reader r appends
Chunk(r, i) == [j \in 1..ChunkLen |-> <<r, i, j>>]

\* the chunks of reader r that have reached the String out
ChunksOf(out, r) ==
    Cardinality({ p \in DOMAIN out : out[p][1] = r /\ out[p][3] = 1 })

\* lines 59-68 and 79-88: the reader takes a chunk out of its pipe and
\* appends it to the log buffer
ReaderRead(t) ==
    /\ run.rd[t] = "read" /\ run.pipe[t] > 0
    /\ run' = [run EXCEPT !.pipe[t] = @ - 1]
    /\ logs' = [logs EXCEPT
                   !.output = @ \o Chunk(<<1, t>>, ChunksOf(logs.output, <<1, t>>) + 1)]
    /\ UNCHANGED <<daemonVars, conn, unit>>

\* read returns 0: the pipe is empty and the command has closed its end
ReaderEof(t) ==
    /\ run.rd[t] = "read" /\ run.pipe[t] = 0 /\ run.proc = "exited"
    /\ run' = [run EXCEPT !.rd[t] = "done"]
    /\ UNCHANGED <<daemonVars, conn, unit, logs>>

\* Command::wait: the guard is taken, then child.wait() blocks holding it
WaitLock ==
    /\ run.waiter = "spawned" /\ run.lock = "none"
    /\ run' = [run EXCEPT !.lock = "waiter", !.waiter = "waiting"]
    /\ UNCHANGED <<daemonVars, conn, unit, logs>>

\* child.wait() returns once the command has exited; the guard is dropped
WaitReturn ==
    /\ run.waiter = "waiting" /\ run.proc = "exited"
    /\ run' = [run EXCEPT !.lock = "none", !.waiter = "returned"]
    /\ UNCHANGED <<daemonVars, conn, unit, logs>>

\* the stream the command writes next
NextStream ==
    IF run.todo[run.first] > 0 THEN run.first
    ELSE CHOOSE t \in Streams : t # run.first

\* the command writes to a pipe that has room; with a full pipe it blocks
CmdWrite ==
    /\ run.proc = "running"
    /\ run.todo[NextStream] > 0 /\ run.pipe[NextStream] < PipeCap
    /\ run' = [run EXCEPT !.todo[NextStream] = @ - 1, !.pipe[NextStream] = @ + 1]
    /\ UNCHANGED <<daemonVars, conn, unit, logs>>

\* the command exits when it has written all its output
CmdExit ==
    /\ run.proc = "running"
    /\ \A t \in Streams : run.todo[t] = 0
    /\ run' = [run EXCEPT !.proc = "exited"]
    /\ UNCHANGED <<daemonVars, conn, unit, logs>>

PipeNext ==
    \/ \E t \in Streams : ReaderTake(t) \/ ReaderRead(t) \/ ReaderEof(t)
    \/ WaitLock \/ WaitReturn
    \/ CmdWrite \/ CmdExit

PipeSpec == PipeInit /\ [][PipeNext]_vars

\* every thread and the command take the steps they can take
PipeFairSpec ==
    /\ PipeSpec
    /\ \A t \in Streams :
          WF_vars(ReaderTake(t)) /\ WF_vars(ReaderRead(t)) /\ WF_vars(ReaderEof(t))
    /\ WF_vars(WaitLock) /\ WF_vars(WaitReturn)
    /\ WF_vars(CmdWrite) /\ WF_vars(CmdExit)

(***************************************************************************)
(* One Service's log buffer and the reader threads of the commands the     *)
(* Service spawns, two per command, with the append taken byte by byte.    *)
(* The daemon's variables stay as in ConnInit.                             *)
(***************************************************************************)
Readers == (1..MaxCmds) \X Streams

LogInit ==
    /\ services = EmptyServices
    /\ config = Absent
    /\ guard = {}
    /\ poisoned = FALSE
    /\ h = [c \in Conns |-> IF c = 1 THEN Reading ELSE Unborn]
    /\ pre = PreNone
    /\ last = NoLast
    /\ mpc = "recv"
    /\ mtodo = {}
    /\ mcur = ""
    /\ mcode = 0
    /\ chan = <<>>
    /\ apc = "accept"
    /\ sock = "bound"
    /\ exit_code = -1
    /\ conn = ConnIdle
    /\ unit = UnitIdle
    /\ run = RunIdle
    /\ logs = LogsNew(Readers)

\* (mutant) a buffer any thread may write at any time
LogsFree_NoExclusion == TRUE

\* lock() on the Mutex<String> returns
LogsFree == logs.holder = "none"

\* Service::start or Service::stop spawns a Command with self.logs.clone();
\* Command::start spawns its two reader threads.  The readers of an earlier
\* command may still be reading
CommandSpawned ==
    /\ logs.started < MaxCmds
    /\ logs' = [logs EXCEPT
                   !.started = @ + 1,
                   !.rd = [r \in Readers |->
                             IF r[1] = logs.started + 1
                             THEN [ReaderIdle EXCEPT !.pc = "read"]
                             ELSE @[r]]]
    /\ UNCHANGED <<daemonVars, conn, unit, run>>

\* reader.read(&mut chunk) returns some bytes
LogRead(r) ==
    /\ logs.rd[r].pc = "read" /\ logs.rd[r].i < MaxOut /\ logs.nread < MaxChunks
    /\ logs' = [logs EXCEPT !.rd[r] = [pc |-> "lock", i |-> @.i + 1, j |-> 0],
                             !.nread = @ + 1]
    /\ UNCHANGED <<daemonVars, conn, unit, run>>

\* reader.read returns 0 or an error: the thread ends
LogEof(r) ==
    /\ logs.rd[r].pc = "read"
    /\ logs' = [logs EXCEPT !.rd[r].pc = "done"]
    /\ UNCHANGED <<daemonVars, conn, unit, run>>

\* let mut output = ..._thread_output.lock().unwrap()
LogLock(r) ==
    /\ logs.rd[r].pc = "lock" /\ LogsFree
    /\ logs' = [logs EXCEPT !.holder = r, !.rd[r].pc = "append"]
    /\ UNCHANGED <<daemonVars, conn, unit, run>>

\* write!(output, ...): the text of the chunk is copied to the end of the
\* String; after its last byte the guard is dropped with the loop body
LogAppend(r) ==
    /\ logs.rd[r].pc = "append"
    /\ LET j == logs.rd[r].j + 1
           last_byte == j = ChunkLen
       IN logs' = [logs EXCEPT
                      !.output = Append(@, <<r, logs.rd[r].i, j>>),
                      !.rd[r].j = j,
                      !.rd[r].pc = IF last_byte THEN "read" ELSE @,
                      !.holder = IF last_byte THEN "none" ELSE @]
    /\ UNCHANGED <<daemonVars, conn, unit, run>>

\* Service::get_logs: the String is cloned under its mutex
GetLogs ==
    /\ LogsFree
    /\ logs' = [logs EXCEPT !.snap = logs.output]
    /\ UNCHANGED <<daemonVars, conn, unit, run>>

LogNext ==
    \/ CommandSpawned
    \/ \E r \in Readers : LogRead(r) \/ LogEof(r) \/ LogLock(r) \/ LogAppend(r)
    \/ GetLogs

LogSpec == LogInit /\ [][LogNext]_vars

(***************************************************************************)
(* One Service driven through start() and stop(), with Command::stop taken *)
(* signal by signal and poll by poll.  The daemon's variables stay as in    *)
(* ConnInit.                                                               *)
(***************************************************************************)
\* the attempts of Command::stop's loop
Rounds == 5

SvcInit ==
    /\ services = EmptyServices
    /\ config = Absent
    /\ guard = {}
    /\ poisoned = FALSE
    /\ h = [c \in Conns |-> IF c = 1 THEN Reading ELSE Unborn]
    /\ pre = PreNone
    /\ last = NoLast
    /\ mpc = "recv"
    /\ mtodo = {}
    /\ mcur = ""
    /\ mcode = 0
    /\ chan = <<>>
    /\ apc = "accept"
    /\ sock = "bound"
    /\ exit_code = -1
    /\ conn = ConnIdle
    /\ unit \in { UnitNew(d) : d \in Defs }
    /\ run = RunIdle
    /\ logs = LogsIdle

\* the handle in s.child is dropped: process::Child's drop neither kills nor
\* waits
DropChild(u) ==
    [u EXCEPT !.os = "none",
              !.zombies = IF u.os = "exited" THEN @ + 1 ELSE @,
              !.orphans = IF u.os = "alive" THEN @ + 1 ELSE @]

\* Service::start; a spawned Synchronous command replaces s.child
SvcStart ==
    /\ unit.pc = "idle" /\ unit.ops < MaxOps
    /\ \E st \in Service_start(unit.s) : \E ig \in BOOLEAN :
          LET u == [unit EXCEPT !.op = "start", !.ops = @ + 1, !.exit = "none"]
          IN CASE st.r = "Await" -> unit' = [u EXCEPT !.pc = "wait", !.res = ""]
               [] st.r = "Panic" -> unit' = [u EXCEPT !.pc = "panicked", !.res = "Panic"]
               [] st.r = "Ok" ->
                    unit' = [DropChild(u) EXCEPT !.s = st.svc, !.os = "alive",
                                                 !.ignores = ig, !.res = "Ok"]
               [] OTHER -> unit' = [u EXCEPT !.res = st.r]
    /\ UNCHANGED <<daemonVars, conn, run, logs>>

\* wait() on the start or stop command of an Asynchronous service returns:
\* Ok with an exit status, or Err
SvcWait ==
    /\ unit.pc = "wait"
    /\ \E w \in {"success", "failure", "Err"} :
          LET f == IF unit.op = "start" THEN StartAsyncFinish(unit.s, w # "Err")
                   ELSE StopAsyncFinish(unit.s, w # "Err")
          IN unit' = [unit EXCEPT !.s = f.svc, !.res = f.r, !.exit = w, !.pc = "idle"]
    /\ UNCHANGED <<daemonVars, conn, run, logs>>

\* Service::stop up to Command::stop's first signal, or to its return
SvcStop ==
    /\ unit.pc = "idle" /\ unit.ops < MaxOps
    /\ LET u == [unit EXCEPT !.op = "stop", !.ops = @ + 1, !.exit = "none",
                             !.round = 0, !.polls = 0, !.nint = 0,
                             !.observed = FALSE, !.late = FALSE, !.killed = FALSE,
                             !.gone = unit.os = "exited"]
       IN IF is_running(unit.s) /\ unit.s.def.kind = "Synchronous"
          THEN unit' = [u EXCEPT !.pc = "sigint", !.res = ""]
          ELSE \E st \in Service_stop(unit.s) :
                  CASE st.r = "Await" -> unit' = [u EXCEPT !.pc = "wait", !.res = ""]
                    [] st.r = "Panic" ->
                         unit' = [u EXCEPT !.pc = "panicked", !.res = "Panic"]
                    [] OTHER -> unit' = [u EXCEPT !.res = st.r]
    /\ UNCHANGED <<daemonVars, conn, run, logs>>

\* a stop_synchronous that discards the handle whatever Command::stop returned
StopReturn_always_drops(u, r) ==
    LET st == CHOOSE x \in Service_stop(u.s) : x.r = "Ok"
    IN [DropChild(u) EXCEPT !.s = st.svc, !.pc = "idle", !.res = r]

\* stop_synchronous once Command::stop has returned r: Ok drops the handle
StopReturn(u, r) ==
    LET st == CHOOSE x \in Service_stop(u.s) : x.r = r
    IN [(IF r = "Ok" THEN DropChild(u) ELSE u)
           EXCEPT !.s = st.svc, !.pc = "idle", !.res = r]

\* signal::kill(pid, SIGINT)?: an error is returned at once
StopSigint ==
    /\ unit.pc = "sigint"
    /\ \/ unit' = StopReturn(unit, "IOError")
       \/ unit' = [unit EXCEPT !.nint = @ + 1, !.late = @ \/ unit.observed,
                               !.pc = "poll", !.polls = 0]
    /\ UNCHANGED <<daemonVars, conn, run, logs>>

\* an inner loop that, seeing the exit, goes on to the next attempt instead of
\* leaving the outer loop
StopPoll_no_break ==
    /\ unit.pc = "poll"
    /\ \/ /\ unit.os = "alive"
          /\ \/ unit' = [unit EXCEPT
                            !.round = @ + 1,
                            !.pc = IF unit.round + 1 = Rounds THEN "kill" ELSE "sigint"]
             \/ /\ unit.polls < MaxPolls
                /\ unit' = [unit EXCEPT !.polls = @ + 1]
       \/ /\ unit.os = "exited"
          /\ unit' = [unit EXCEPT
                         !.os = "reaped", !.observed = TRUE,
                         !.round = @ + 1,
                         !.pc = IF unit.round + 1 = Rounds THEN "kill" ELSE "sigint"]
       \/ unit' = [unit EXCEPT !.pc = "kill"]
    /\ UNCHANGED <<daemonVars, conn, run, logs>>

\* one turn of the inner loop: try_wait, then the deadline, then the sleep
StopPoll ==
    /\ unit.pc = "poll"
    /\ \/ /\ unit.os = "alive"
          /\ \/ unit' = [unit EXCEPT
                            !.round = @ + 1,
                            !.pc = IF unit.round + 1 = Rounds THEN "kill" ELSE "sigint"]
             \/ /\ unit.polls < MaxPolls
                /\ unit' = [unit EXCEPT !.polls = @ + 1]
       \/ /\ unit.os = "exited"
          /\ unit' = [unit EXCEPT !.os = "reaped", !.observed = TRUE, !.pc = "kill"]
       \/ unit' = [unit EXCEPT !.pc = "kill"]
    /\ UNCHANGED <<daemonVars, conn, run, logs>>

\* a child.kill() that signals whatever try_wait has seen
StopKill_signals_reaped ==
    /\ unit.pc = "kill"
    /\ \/ unit' = StopReturn([unit EXCEPT !.killed = TRUE], "Ok")
       \/ unit' = StopReturn(unit, "IOError")
    /\ UNCHANGED <<daemonVars, conn, run, logs>>

\* child.kill(): Ok(()) with no signal for a child already waited on, SIGKILL
\* otherwise; nothing waits on the killed process
StopKill ==
    /\ unit.pc = "kill"
    /\ IF unit.os = "reaped"
       THEN unit' = StopReturn(unit, "Ok")
       ELSE \/ unit' = StopReturn([unit EXCEPT !.killed = TRUE, !.os = "exited"], "Ok")
            \/ unit' = StopReturn(unit, "IOError")
    /\ UNCHANGED <<daemonVars, conn, run, logs>>

\* the child's process ends by itself or on a SIGINT it does not ignore
ProcessExits ==
    /\ unit.os = "alive" /\ ~unit.ignores
    /\ unit' = [unit EXCEPT !.os = "exited"]
    /\ UNCHANGED <<daemonVars, conn, run, logs>>

SvcNext ==
    \/ SvcStart \/ SvcWait \/ SvcStop
    \/ StopSigint \/ StopPoll \/ StopKill
    \/ ProcessExits

SvcSpec == SvcInit /\ [][SvcNext]_vars

\* the thread inside Command::stop runs: its signals, polls and kill happen
SvcFairSpec ==
    SvcSpec /\ WF_vars(StopSigint) /\ WF_vars(StopPoll) /\ WF_vars(StopKill)

(***************************************************************************)
(* Properties.                                                             *)
(***************************************************************************)
\* the threads that are inside a ServiceManager operation, or between its
\* return and the end of the statement that holds the guard
Inside ==
    { c \in Conns : h[c].pc \in {"await", "write"} }
    \cup (IF mpc \in {"stop_all", "stop_await"} THEN {Main} ELSE {})

\* what the operation of cmd can come to when nothing else runs: a blocked
\* wait() is followed by its return (restart can block twice)
SerialStep(o, cmd) ==
    IF o.next = "await"
    THEN UNION { resume(o.services, o.config, cmd, o.phase, w) : w \in BOOLEAN }
    ELSE {o}
SerialOutcomes(svcs, cfg, cmd) ==
    UNION { SerialStep(o2, cmd) :
              o2 \in UNION { SerialStep(o, cmd) : o \in dispatch(svcs, cfg, cmd) } }
\* ... and the points at which it can be blocked on the way
SerialBlocked(svcs, cfg, cmd) ==
    LET first == dispatch(svcs, cfg, cmd)
    IN { o \in first \cup UNION { SerialStep(o1, cmd) : o1 \in first } : o.next = "await" }

\* C1: no two registry operations run concurrently: at most one thread (a
\* handler or main's stop_all) is inside an operation, it is the holder of the
\* guard from dispatch to the operation's return, also while it waits on an
\* Asynchronous start or stop command, and what a handler's operation has done
\* to the registry and the file is what the command does applied alone to the
\* state found when the guard was taken.
C1_Serialized ==
    /\ Cardinality(Inside) <= 1
    /\ Inside = guard
    /\ \A c \in Conns :
          /\ h[c].pc = "write" =>
                \E o \in SerialOutcomes(pre.services, pre.config, h[c].cmd) :
                   /\ o.next = "done"
                   /\ o.services = services /\ o.config = config
                   /\ o.res = h[c].res
          /\ h[c].pc = "await" =>
                \E o \in SerialBlocked(pre.services, pre.config, h[c].cmd) :
                   /\ o.services = services /\ o.config = config
                   /\ o.phase = h[c].phase

\* a handler waits on an Asynchronous command under the guard while another
\* connection is open and main wants the guard for stop_all
C1_Witness ==
    \E c, d \in Conns :
       /\ c # d
       /\ h[c].pc = "await" /\ guard = {c}
       /\ h[d].pc = "read"
       /\ mpc = "lock"

\* C4: Add* with a name already in the registry answers ServiceAlreadyExists,
\* leaves the registry (names, definitions, running state) and the
\* configuration file as they were, and calls no Service operation (nothing
\* is spawned).
C4_AddExisting ==
    \A c \in Conns :
       (/\ h[c].pc \in {"await", "write", "panicked"}
        /\ h[c].cmd.type \in AddTypes
        /\ h[c].cmd.name \in DOMAIN pre.services)
       => /\ h[c].pc = "write"
          /\ h[c].res = Response("ServiceAlreadyExists", KindNone)
          /\ services = pre.services
          /\ config = pre.config
          /\ h[c].sres = "None"

\* a running service is added again under another definition
C4_Witness ==
    \E c \in Conns :
       /\ h[c].pc = "write"
       /\ h[c].cmd.type \in AddTypes
       /\ h[c].cmd.name \in DOMAIN pre.services
       /\ pre.services[h[c].cmd.name].def # h[c].cmd.def
       /\ is_running(pre.services[h[c].cmd.name])
       /\ Deserialize(config).ok

\* C5: Remove, Start, Stop, Restart and GetServiceStatus of a name that is not
\* in the registry answer ServiceDoesNotExist and leave the registry, every
\* service's running state and the configuration file as they were.
C5_AbsentName ==
    \A c \in Conns :
       (/\ h[c].pc \in {"await", "write", "panicked"}
        /\ h[c].cmd.type \in NameTypes
        /\ h[c].cmd.name \notin DOMAIN pre.services)
       => /\ h[c].pc = "write"
          /\ h[c].res = Response("ServiceDoesNotExist", KindNone)
          /\ services = pre.services
          /\ config = pre.config
          /\ h[c].sres = "None"

\* each of the five commands meets an absent name while another service runs
C5_WitnessOf(t) ==
    \E c \in Conns :
       /\ h[c].pc = "write"
       /\ h[c].cmd.type = t
       /\ h[c].cmd.name \notin DOMAIN pre.services
       /\ \E n \in DOMAIN services : is_running(services[n])
C5_Witness == C5_WitnessOf("RemoveService")

InSync == Deserialize(config) = [ok |-> TRUE, map |-> DefsOf(services)]

\* C6 as stated: after any Add* or Remove that returned Ok the file parses to
\* the in-memory name-to-definition map, at the return and while the guard is
\* free afterwards.
C6_AsStated ==
    /\ \A c \in Conns :
          (/\ h[c].pc = "write"
           /\ h[c].cmd.type \in MutatingTypes
           /\ h[c].res.status = "Ok") => InSync
    /\ (guard = {} /\ last # NoLast) => InSync

\* C6, amended: after any Add* or Remove that returned Ok and whose flush
\* wrote the file, the file parses to exactly the in-memory
\* name-to-definition map, at the return and while the guard stays free until
\* the next command takes it.
C6_FlushedInSync ==
    /\ \A c \in Conns :
          (/\ h[c].pc = "write"
           /\ h[c].cmd.type \in MutatingTypes
           /\ h[c].res.status = "Ok"
           /\ h[c].fl = "Written") => InSync
    /\ (guard = {} /\ last # NoLast /\ last.fl = "Written") => InSync

\* a Remove that left a service in the registry, answered Ok with the file
\* rewritten, and the guard free again
C6_Witness ==
    /\ guard = {}
    /\ last.cmd.type = "RemoveService" /\ last.fl = "Written"
    /\ DOMAIN services # {}
    /\ \E c \in Conns : h[c].pc = "read"

\* C7: GetServiceStatus that immediately follows an accepted Add* of the same
\* name answers Ok with ServiceStatus, the definition just added, and
\* running = TRUE exactly if the start attempted by the add returned Ok.
C7_StatusAfterAdd ==
    \A c \in Conns :
       (/\ h[c].pc = "write"
        /\ h[c].cmd.type = "GetServiceStatus"
        /\ last.cmd.type \in AddTypes
        /\ last.cmd.name = h[c].cmd.name)
       => h[c].res = Response("Ok", KindServiceStatus(last.cmd.def, last.sres = "Ok"))

\* the status of an Asynchronous service whose start failed, asked on another
\* connection than the one that added it
C7_Witness ==
    \E c \in Conns :
       /\ h[c].pc = "write"
       /\ h[c].cmd.type = "GetServiceStatus"
       /\ last.cmd.type = "AddAsynchronousService"
       /\ last.cmd.name = h[c].cmd.name
       /\ last.sres = "IOError"
       /\ h[c].res.kind.running = FALSE

\* C8: is_running() is true right after start() returned Ok and false right
\* after stop() returned Ok, for both kinds of service.
C8_RunningAfterStartStop ==
    \A c \in Conns :
       (/\ h[c].pc = "write"
        /\ h[c].sres = "Ok"
        /\ h[c].cmd.name \in DOMAIN services)
       => /\ h[c].phase = "start" => is_running(services[h[c].cmd.name])
          /\ h[c].phase = "stop" => ~is_running(services[h[c].cmd.name])

\* a running service was stopped and started again by one restart
C8_Witness ==
    \E c \in Conns :
       /\ h[c].pc = "write"
       /\ h[c].cmd.type = "RestartService"
       /\ h[c].phase = "start" /\ h[c].sres = "Ok"
       /\ is_running(pre.services[h[c].cmd.name])
       /\ is_running(services[h[c].cmd.name])

\* C9: when Start, Stop or Restart names an existing service and the Service
\* operation fails, the response differs from the one sent on success.
C9_FailureReported ==
    \A c \in Conns :
       (/\ h[c].pc = "write"
        /\ h[c].cmd.type \in {"StartService", "StopService", "RestartService"}
        /\ h[c].cmd.name \in DOMAIN pre.services
        /\ h[c].sres \in {"ServiceAlreadyRunning", "ServiceNotRunning", "IOError"})
       => h[c].res # Response("Ok", KindNone)

\* C10: Add* with a fresh name always inserts the definition, calls flush and
\* answers Ok, also when the start it attempts fails, and a failed start
\* leaves the new service present and not running.
C10_AddFresh ==
    \A c \in Conns :
       (/\ h[c].pc \in {"write", "panicked"}
        /\ h[c].cmd.type \in AddTypes
        /\ h[c].cmd.name \notin DOMAIN pre.services)
       => /\ h[c].pc = "write"
          /\ h[c].res = Response("Ok", KindNone)
          /\ h[c].cmd.name \in DOMAIN services
          /\ services[h[c].cmd.name].def = h[c].cmd.def
          /\ h[c].fl # "None"
          /\ h[c].sres # "Ok" => ~is_running(services[h[c].cmd.name])

\* the handler of the byte-level connection is between two commands or has ended
Idle == h[1].pc \in {"read", "closed", "panicked"}

\* C2: on one connection responses come in submission order: the k-th
\* response the handler writes answers the k-th command it decoded, every
\* decoded command gets exactly one response, and the handler reads no command
\* before the response to the one before it was written or its write failed.
C2_ResponsesInOrder ==
    /\ Len(conn.out) <= Len(conn.decoded)
    /\ \A k \in 1..Len(conn.out) : conn.out[k].cmd = conn.decoded[k]
    /\ Idle => Len(conn.out) = Len(conn.decoded)
    /\ ~Idle => /\ Len(conn.out) = Len(conn.decoded) - 1
                /\ h[1].cmd = conn.decoded[Len(conn.decoded)]

\* the texts of the terminated frames of byte stream s, in order
RECURSIVE Frames(_)
Frames(s) ==
    LET i == FirstDelim(s)
    IN IF i = 0 THEN <<>>
       ELSE <<SubSeq(s, 1, i - 1)>> \o Frames(SubSeq(s, i + 1, Len(s)))

\* the commands of the frames of s that are Commands, in order
FrameCommands(s) ==
    LET fs == Frames(s)
        IsCommand(text) == Decode(text).ok
        good == SelectSeq(fs, IsCommand)
    IN [k \in 1..Len(good) |-> Decode(good[k]).cmd]

\* C3: framing does not depend on how the bytes were grouped into writes: once
\* the handler has taken every byte the client wrote and waits for more, each
\* terminated command of the stream has been decoded, in order, and none that
\* followed another in the same write is lost.
C3_EveryFrameDecoded ==
    (h[1].pc = "read" /\ conn.wire = <<>> /\ conn.bytes = <<>>)
        => conn.decoded = FrameCommands(conn.stream)

\* C11: RemoveService on an existing name stops the service if it is running,
\* deletes the entry, persists and answers Ok even if the stop fails; when it
\* has returned the name is absent from the registry and from ListServices,
\* and a GetServiceStatus that follows answers ServiceDoesNotExist.
C11_RemoveExisting ==
    \A c \in Conns :
       /\ (/\ h[c].pc \in {"write", "panicked"}
           /\ h[c].cmd.type = "RemoveService"
           /\ h[c].cmd.name \in DOMAIN pre.services)
          => /\ h[c].pc = "write"
             /\ h[c].res = Response("Ok", KindNone)
             /\ is_running(pre.services[h[c].cmd.name]) <=> h[c].sres # "None"
             /\ services = Delete(pre.services, h[c].cmd.name)
             /\ h[c].fl # "None"
       /\ (/\ h[c].pc = "write"
           /\ h[c].cmd.type = "GetServiceStatus"
           /\ last.cmd.type = "RemoveService"
           /\ last.cmd.name = h[c].cmd.name)
          => h[c].res = Response("ServiceDoesNotExist", KindNone)
       /\ (h[c].pc = "write" /\ h[c].cmd.type = "ListServices")
          => h[c].res = Response("Ok", KindServiceList(DefsOf(services)))

\* main has received a shutdown request (the exit code is in mcode)
ShutdownRequested == mpc \in {"lock", "stop_all", "stop_await", "exit"}

\* C12: on a shutdown request carrying exit code c the supervisor runs
\* stop_all, unlinks the socket file exactly if c = 0 and ends the process
\* with exit code c; a shutdown requested by a signal ends with exit code 0.
C12_ShutdownSequence ==
    (~Up /\ ShutdownRequested)
       => /\ mpc = "exit"
          /\ exit_code = mcode
          /\ (sock = "removed") <=> (mcode = 0)

\* C13: when the process exits after a shutdown request no service of the
\* registry is running, whatever the connection handlers did meanwhile.
C13_AllStoppedAtExit ==
    (~Up /\ mpc = "exit")
       => \A n \in DOMAIN services : ~is_running(services[n])

\* a signal has been delivered: the signal thread has sent exit code 0
SignalDelivered == \E i \in 1..Len(chan) : chan[i] = 0

\* C14: once SIGINT or SIGTERM has been delivered the daemon eventually runs
\* stop_all and terminates, also when a handler holds the guard inside an
\* Asynchronous start or stop command that never exits.
C14_SignalTerminates == SignalDelivered ~> ~Up

\* main is inside ServiceManager::new
InNew == mpc \in {"new", "new_start", "new_await"}

\* the name-to-definition maps a previous run can have persisted
PersistedMaps == UNION { [S -> Defs] : S \in SUBSET Names }

\* what one start attempt can leave of service s
StartOutcomes(s) ==
    { st.svc : st \in Service_start(s) }
    \cup { StartAsyncFinish(s, waitOk).svc : waitOk \in BOOLEAN }

\* the registry new has built, seen before the server thread exists
C15_Loaded ==
    /\ (mpc # "new" /\ apc = "unborn")
       => /\ config = Absent => services = EmptyServices
          /\ \A m \in PersistedMaps :
                config \in Serialize([n \in DOMAIN m |-> Service_new(m[n])])
                   => DefsOf(services) = m
    /\ InNew => /\ apc = "unborn"
                /\ \A c \in Conns : h[c] = Unborn
    /\ (~InNew /\ apc = "unborn") => mtodo = {}

\* new's loop: every loaded service is queued, leaves the queue through a
\* start attempt only, and the loop ends with the queue empty
C15_StartStep ==
    /\ (mpc = "new" /\ mpc' # "new") => mtodo' = DOMAIN services'
    /\ (InNew /\ mpc # "new" /\ mtodo' # mtodo)
          => \E n \in mtodo : /\ mtodo' = mtodo \ {n}
                              /\ services'[n] \in StartOutcomes(services[n])
    /\ (InNew /\ ~InNew') => mtodo = {}

\* C15: started on a configuration file written by a previous run, the daemon
\* builds a registry whose name-to-definition map is the persisted one and
\* attempts to start every loaded service before any client command is
\* dispatched; with no file the registry is empty.
C15_ReloadAndAutostart == []C15_Loaded /\ [][C15_StartStep]_vars

\* new has loaded both services of a two-entry file and started them
C15_Witness ==
    /\ mpc = "socket_path" /\ apc = "unborn"
    /\ DOMAIN services = Names
    /\ config \in Serialize(services)
    /\ services["a"].async_running
    /\ services["b"].child = "Alive"

\* the configuration file exists and from_str rejects it
Unparsed == config # Absent /\ ~Deserialize(config).ok

\* new, given a file it cannot parse, leaves the registry empty with nothing
\* to start
C16_EmptyAfterParseFailure ==
    (mpc # "new" /\ apc = "unborn" /\ Unparsed)
       => /\ services = EmptyServices
          /\ mtodo = {}
          /\ mpc # "new_await"

\* the file changes only in the step in which a handler completes an Add* or
\* a Remove with status Ok
C16_FileStep ==
    config' # config
       => \E c \in Conns : /\ h[c].pc # "write" /\ h'[c].pc = "write"
                           /\ h'[c].cmd.type \in MutatingTypes
                           /\ h'[c].res.status = "Ok"

\* C16: when the configuration file fails to parse at bootstrap the registry
\* starts empty, no service is started, and the file keeps its content until
\* the next Add* or Remove that succeeds.
C16_ParseFailureKeepsFile == []C16_EmptyAfterParseFailure /\ [][C16_FileStep]_vars

\* the unparsable file has survived bootstrap and a command that is neither
\* an Add* nor a Remove
C16_Witness ==
    /\ Unparsed /\ services = EmptyServices
    /\ \E c \in Conns : /\ h[c].pc = "write"
                        /\ h[c].cmd.type = "StartService"
                        /\ h[c].res.status = "ServiceDoesNotExist"

\* the unit's thread is inside Command::stop
InStop == unit.pc \in {"sigint", "poll", "kill"}

\* stop() on a running Synchronous service has returned
StopReturned ==
    /\ unit.pc = "idle" /\ unit.op = "stop"
    /\ unit.s.def.kind = "Synchronous"
    /\ unit.res \in CommandStop

\* the rounds of Command::stop: at most 5 interrupts, one per round and each
\* followed by at most MaxPolls sleeps, none after the exit was seen
C17_Rounds ==
    /\ unit.nint <= 5 /\ unit.round <= 5 /\ unit.polls <= MaxPolls
    /\ unit.pc = "sigint" => unit.nint = unit.round /\ unit.round < 5
    /\ unit.pc = "poll" => unit.nint = unit.round + 1
    /\ ~unit.late
    /\ unit.killed => ~unit.observed

\* as stated: whenever stop() returns, a child that ignores SIGINT is dead
C17_AsStated ==
    /\ C17_Rounds
    /\ (StopReturned /\ unit.ignores) => unit.os # "alive"

\* stop() returns Ok for a child still alive only after SIGKILL, which the
\* fifth round is always followed by; an error leaves the child in place
C17_Outcome ==
    /\ (StopReturned /\ unit.res = "Ok")
          => /\ unit.os = "none" /\ unit.orphans = 0
             /\ unit.ignores => unit.killed
             /\ unit.round = 5 => unit.killed
             /\ ~is_running(unit.s)
    /\ (StopReturned /\ unit.res = "IOError")
          => /\ is_running(unit.s)
             /\ ~unit.killed

\* C17: Command::stop escalates in bounded rounds: at most 5 interrupts, each
\* followed by a bounded poll, none once the exit has been observed, then the
\* unconditional kill if the child is still alive; stop() always returns, and
\* when it returns Ok a child that ignores SIGINT has been killed.
C17_Escalation == [](C17_Rounds /\ C17_Outcome) /\ (InStop ~> ~InStop)

\* a child that ignores SIGINT was interrupted 5 times and then killed
C17_Witness ==
    /\ StopReturned /\ unit.res = "Ok"
    /\ unit.ignores /\ unit.nint = 5 /\ unit.round = 5 /\ unit.killed

\* C18: once stop() has returned for a Synchronous service whose child
\* ignores SIGINT, the service is not running and the child's process has
\* been waited on: no process of the service is left dead and unreaped.
C18_StoppedAndReaped ==
    (StopReturned /\ unit.ignores)
       => /\ ~is_running(unit.s)
          /\ unit.zombies = 0

\* the running flag changes only in the step in which wait() returns the
\* successful exit of the start command (to TRUE) or of the stop command (to
\* FALSE)
C19_FlagStep ==
    /\ (~unit.s.async_running /\ unit'.s.async_running)
          => unit.op = "start" /\ unit'.exit = "success"
    /\ (unit.s.async_running /\ ~unit'.s.async_running)
          => unit.op = "stop" /\ unit'.exit = "success"

\* C19: the running flag of an Asynchronous service becomes true only through
\* a start() whose start_command completed successfully and false only
\* through a stop() whose stop_command completed successfully; a command that
\* is not spawned, cannot be waited on or exits unsuccessfully leaves it.
C19_FlagFollowsSuccess == [][C19_FlagStep]_vars

\* the step is a call of start(), of stop()
CallsStart == unit.pc = "idle" /\ unit'.op = "start" /\ unit'.ops = unit.ops + 1
CallsStop == unit.pc = "idle" /\ unit'.op = "stop" /\ unit'.ops = unit.ops + 1

\* start() on a running service and stop() on one that is not running return
\* their error with the Service and its processes as they were and no signal
\* sent; a process is spawned only while the Service holds no child
C20_CallStep ==
    /\ (CallsStart /\ is_running(unit.s))
          => unit' = [unit EXCEPT !.op = "start", !.ops = @ + 1, !.exit = "none",
                                  !.res = "ServiceAlreadyRunning"]
    /\ (CallsStop /\ ~is_running(unit.s))
          => /\ unit'.res = "ServiceNotRunning" /\ unit'.pc = "idle"
             /\ unit'.s = unit.s /\ unit'.os = unit.os
             /\ unit'.zombies = unit.zombies /\ unit'.orphans = unit.orphans
             /\ unit'.nint = 0 /\ ~unit'.killed
    /\ (unit'.os = "alive" /\ unit.os # "alive")
          => CallsStart /\ unit.s.child = "None" /\ unit.os = "none"

\* the only process of a Synchronous service is the one behind its handle
C20_OneChild ==
    /\ unit.orphans = 0
    /\ unit.os # "none" <=> unit.s.child # "None"
    /\ unit.res = "ServiceAlreadyRunning" => unit.op = "start" /\ is_running(unit.s)
    /\ unit.res = "ServiceNotRunning" => unit.op = "stop" /\ ~is_running(unit.s)

\* C20: start() on a running service fails with ServiceAlreadyRunning without
\* spawning a process or changing state, stop() on a service that is not
\* running fails with ServiceNotRunning without spawning or signalling one;
\* hence a Synchronous service never owns more than one child at a time.
C20_GuardedStartStop == []C20_OneChild /\ [][C20_CallStep]_vars

\* start() was refused on a Synchronous service whose child is alive
C20_Witness ==
    /\ unit.pc = "idle" /\ unit.op = "start"
    /\ unit.res = "ServiceAlreadyRunning"
    /\ unit.s.def.kind = "Synchronous" /\ unit.os = "alive"

\* C21: restart() is stop() then start(): when stop() fails (ServiceNotRunning
\* for a stopped service included) start() is not attempted and the running
\* state is as before; when stop() succeeds and start() fails the service is
\* left not running.
C21_RestartStopThenStart ==
    \A c \in Conns :
       (/\ h[c].pc \in {"write", "panicked"}
        /\ h[c].cmd.type = "RestartService"
        /\ h[c].cmd.name \in DOMAIN pre.services)
          => LET n == h[c].cmd.name
                 before == pre.services[n]
             IN /\ DOMAIN services = DOMAIN pre.services
                /\ \A m \in DOMAIN services \ {n} : services[m] = pre.services[m]
                /\ ~is_running(before)
                      => h[c].phase = "stop" /\ h[c].sres = "ServiceNotRunning"
                /\ h[c].phase = "stop"
                      => h[c].sres # "Ok" /\ services = pre.services
                /\ h[c].phase = "start"
                      => /\ is_running(before)
                         /\ is_running(services[n]) <=> h[c].sres = "Ok"

\* a restart whose stop() succeeded and whose start() failed
C21_Witness ==
    \E c \in Conns :
       /\ h[c].pc = "write" /\ h[c].cmd.type = "RestartService"
       /\ h[c].cmd.name \in DOMAIN pre.services
       /\ is_running(pre.services[h[c].cmd.name])
       /\ h[c].phase = "start" /\ h[c].sres = "IOError"
       /\ ~is_running(services[h[c].cmd.name])

\* the commands that are neither an Add* nor a Remove
FrameTypes == {"StartService", "StopService", "RestartService", "GetServiceStatus",
               "ListServices"}

\* while and after a handler runs one of these commands the file, the names
\* and the definitions are those it found when it took the guard
C22_Frame ==
    \A c \in Conns :
       (h[c].pc \in {"await", "write", "panicked"} /\ h[c].cmd.type \in FrameTypes)
          => /\ config = pre.config
             /\ DefsOf(services) = DefsOf(pre.services)
             /\ h[c].fl = "None"

\* a definition in the registry never changes, and a name enters the
\* registry in new or with the definition of the Add* being handled
C22_DefStep ==
    /\ \A n \in DOMAIN services \cap DOMAIN services' :
          services'[n].def = services[n].def
    /\ \A n \in DOMAIN services' \ DOMAIN services :
          \/ mpc = "new"
          \/ \E c \in Conns : /\ h[c].pc = "read"
                              /\ h'[c].cmd.type \in AddTypes
                              /\ h'[c].cmd.name = n
                              /\ services'[n].def = h'[c].cmd.def

\* C22: StartService, StopService, RestartService, GetServiceStatus and
\* ListServices never write the configuration file and never change the set
\* of names or a definition of the registry; a definition stays the one its
\* Add* supplied until the service is removed.
C22_NoDefinitionChange == []C22_Frame /\ [][C22_DefStep]_vars

\* a StartService that started its service: the registry changed, the file
\* and the definitions did not
C22_Witness ==
    \E c \in Conns :
       /\ h[c].pc = "write" /\ h[c].cmd.type = "StartService"
       /\ h[c].phase = "start" /\ h[c].sres = "Ok"
       /\ services # pre.services
       /\ config = pre.config

\* C23: a frame that fails to decode gets no response, does not end the
\* handler and leaves the registry alone, and the well-formed frame that
\* follows it on the connection is decoded, dispatched and answered.
C23_DecodeErrorSkipped ==
    LET fs == Frames(conn.stream)
    IN /\ (h[1].pc = "closed") => ~conn.open
       /\ (Len(fs) >= 1 /\ fs[1] = Malformed /\ conn.decoded = <<>>)
             => /\ conn.out = <<>>
                /\ services = EmptyServices /\ config = Absent
       /\ (/\ h[1].pc = "read" /\ conn.wire = <<>> /\ conn.bytes = <<>>
           /\ Len(fs) = 2 /\ fs[1] = Malformed /\ Decode(fs[2]).ok)
             => /\ conn.decoded = <<Decode(fs[2]).cmd>>
                /\ Len(conn.out) = 1
                /\ conn.out[1].cmd = Decode(fs[2]).cmd

\* C24: the frame reader reports a clean close only when the stream ends
\* with no byte of a frame received, and a stream that ends after some bytes
\* of a frame but before its terminator never yields a decoded message:
\* every decoded command is the text of a terminated frame of the stream.
C24_EofMidFrameIsError ==
    /\ (h[1].pc = "closed")
          => (conn.stream = <<>> \/ conn.stream[Len(conn.stream)] = Delim)
    /\ \A k \in 1..Len(conn.decoded) :
          \E j \in 1..Len(Frames(conn.stream)) :
             Frames(conn.stream)[j] = Encode(conn.decoded[k])

\* C25: a response with a status other than Ok carries kind None, and an Ok
\* response carries the kind of the operation dispatched: ServiceStatus for
\* GetServiceStatus, ServiceList for ListServices, None for the others.
C25_ResponseKinds ==
    \A c \in Conns :
       h[c].pc = "write"
          => LET r == h[c].res
                 cmd == h[c].cmd
             IN /\ r.status \in {"Ok", "ServiceAlreadyExists", "ServiceDoesNotExist"}
                /\ r.status # "Ok" => r.kind = KindNone
                /\ r.status = "Ok"
                      => CASE cmd.type = "GetServiceStatus" ->
                                /\ cmd.name \in DOMAIN services
                                /\ r.kind = KindServiceStatus(
                                               services[cmd.name].def,
                                               is_running(services[cmd.name]))
                           [] cmd.type = "ListServices" ->
                                r.kind = KindServiceList(DefsOf(services))
                           [] OTHER -> r.kind = KindNone

\* an error response is about to be written
C25_Witness ==
    \E c \in Conns :
       /\ h[c].pc = "write" /\ h[c].cmd.type = "GetServiceStatus"
       /\ h[c].res.status = "ServiceDoesNotExist"
       /\ h[c].res.kind = KindNone
       /\ services # EmptyServices

\* C26: in every reachable state a Synchronous service is running if and
\* only if it holds a child handle (its flag is never set), and an
\* Asynchronous service holds no child handle: the handle of its start or
\* stop command is gone when the call returns.
C26_HandleAndKind ==
    \A n \in DOMAIN services :
       LET s == services[n]
       IN /\ s.def.kind \in {"Synchronous", "Asynchronous"}
          /\ s.def.kind = "Synchronous"
                => /\ is_running(s) <=> s.child # "None"
                   /\ ~s.async_running
          /\ s.def.kind = "Asynchronous"
                => /\ s.child = "None"
                   /\ is_running(s) <=> s.async_running

\* a running Synchronous service next to a running Asynchronous one
C26_Witness ==
    /\ DOMAIN services = Names
    /\ \E n \in Names : /\ services[n].def.kind = "Synchronous"
                        /\ services[n].child = "Alive"
    /\ \E n \in Names : /\ services[n].def.kind = "Asynchronous"
                        /\ services[n].async_running

\* C27: no request makes the registry unusable: a start that fails, also the
\* start of an empty command sequence, is a logged error, so that no handler
\* thread dies of it, the mutex of the registry is never poisoned, and main
\* does not die taking the guard for stop_all.
C27_RegistryStaysUsable ==
    /\ ~poisoned
    /\ \A c \in Conns : h[c].pc # "panicked"
    /\ exit_code # 101

\* wait() holds the guard of the Child, both reader threads are blocked on
\* that guard without their streams, and the command is blocked writing to
\* a full pipe
PipeDeadlock ==
    /\ run.waiter = "waiting" /\ run.lock = "waiter"
    /\ \A t \in Streams : run.rd[t] = "lock"
    /\ run.proc = "running"
    /\ run.todo[NextStream] > 0 /\ run.pipe[NextStream] = PipeCap

\* C28: starting or stopping an Asynchronous service cannot deadlock on the
\* guard of the child handle: wait() holding it never coincides with both
\* reader threads blocked on it, their streams not taken, while the command
\* is blocked writing to a full pipe.
C28_NoPipeDeadlock == ~PipeDeadlock

\* C29: whenever GetServiceStatus reports running = true for a Synchronous
\* service the process of its child has not exited: a child that ends on its
\* own makes the service report not running.
C29_RunningMeansAlive ==
    \A c \in Conns :
       (/\ h[c].pc = "write" /\ h[c].cmd.type = "GetServiceStatus"
        /\ h[c].res.status = "Ok" /\ h[c].res.kind.running
        /\ h[c].res.kind.service.kind = "Synchronous")
          => services[h[c].cmd.name].child = "Alive"

\* C30: no orphaned children: a live process spawned for a Synchronous
\* service is the child of a service of the registry; a RemoveService has
\* deleted the entry of a service whose child was alive only after its
\* stop() succeeded, and a failed stop or a restart leaves the entry with
\* its child.
C30_NoOrphans ==
    \A c \in Conns :
       (/\ h[c].pc = "write"
        /\ h[c].cmd.type \in {"RemoveService", "StopService", "RestartService"}
        /\ h[c].cmd.name \in DOMAIN pre.services
        /\ pre.services[h[c].cmd.name].child = "Alive"
        /\ h[c].phase = "stop" /\ h[c].sres # "Ok")
          => /\ h[c].cmd.name \in DOMAIN services
             /\ services[h[c].cmd.name].child = "Alive"

\* C31: whenever the process has ended after ServiceManager::new returned
\* (shutdown request, failure to resolve the socket path or to install the
\* signal handlers, failure to unlink the socket), main had run stop_all
\* to its end before the exit.
C31_StopAllBeforeExit ==
    (~Up /\ ~InNew) => mpc = "exit"

\* the outcomes of flush in which a step of persistence failed
FailedFlush == {"NotOpened", "WriteFailed"}

\* C32: when persistence fails during an Add* or a Remove the change to the
\* registry is kept and the command is answered Ok, and the commands that
\* follow are served from the registry in memory, not from the file.
C32_MemoryAuthoritative ==
    \A c \in Conns :
       /\ (/\ h[c].pc = "write" /\ h[c].cmd.type \in MutatingTypes
           /\ h[c].fl \in FailedFlush)
             => LET n == h[c].cmd.name
                IN /\ h[c].res = RespondOk(KindNone)
                   /\ h[c].cmd.type \in AddTypes
                         => /\ n \notin DOMAIN pre.services
                            /\ DOMAIN services = DOMAIN pre.services \cup {n}
                            /\ services[n].def = h[c].cmd.def
                            /\ \A m \in DOMAIN pre.services :
                                  services[m] = pre.services[m]
                   /\ h[c].cmd.type = "RemoveService"
                         => /\ n \in DOMAIN pre.services
                            /\ services = Delete(pre.services, n)
       /\ (/\ h[c].pc = "write" /\ h[c].cmd.type = "GetServiceStatus"
           /\ last.fl \in FailedFlush /\ last.cmd.name = h[c].cmd.name)
             => IF last.cmd.type \in AddTypes
                THEN /\ h[c].res.status = "Ok"
                     /\ h[c].res.kind.service = last.cmd.def
                ELSE h[c].res = RespondErr("ServiceDoesNotExist")

\* an Add* whose flush failed was answered Ok, and the status of the new
\* service is served although the file does not hold it
C32_Witness ==
    \E c \in Conns :
       /\ h[c].pc = "write" /\ h[c].cmd.type = "GetServiceStatus"
       /\ last.cmd.type \in AddTypes /\ last.fl \in FailedFlush
       /\ last.cmd.name = h[c].cmd.name
       /\ h[c].res.status = "Ok"
       /\ ~InSync

\* C33: a persistence attempt, failed or not, leaves the configuration file
\* with its previous content or with the complete text of the new registry,
\* never truncated or partly written.
C33_FileOldOrNew ==
    \A c \in Conns :
       (h[c].pc = "write" /\ h[c].cmd.type \in MutatingTypes /\ h[c].fl # "None")
          => \/ config = pre.config
             \/ config \in Serialize(services)

\* the steps of stop() on a running Synchronous service: only a signal call
\* returns the error, and it leaves the Service and its process as they were;
\* the polls of a child that does not exit return nothing; the handle goes
\* only as stop() returns Ok
C34_StopStep ==
    /\ (InStop /\ unit'.pc = "idle" /\ unit'.res # "Ok")
          => /\ unit'.res = "IOError"
             /\ unit.pc = "sigint" \/ (unit.pc = "kill" /\ unit.os # "reaped")
             /\ unit'.s = unit.s /\ unit'.os = unit.os
             /\ unit'.orphans = unit.orphans /\ unit'.zombies = unit.zombies
    /\ (unit.pc = "poll" /\ unit'.pc = "idle") => FALSE
    /\ (unit.s.child # "None" /\ unit'.s.child = "None")
          => InStop /\ unit'.pc = "idle" /\ unit'.res = "Ok"

\* a stop() that failed left the service running, with its child
C34_Failed ==
    (StopReturned /\ unit.res # "Ok")
       => /\ unit.res = "IOError"
          /\ unit.s.child # "None" /\ is_running(unit.s)
          /\ unit.os # "none"

\* C34: Command::stop fails only when a signal call fails; a child that
\* ignores SIGINT never makes it fail.  When it fails the Synchronous service
\* keeps its child handle and is_running() stays true; only a successful stop
\* discards the handle.
C34_StopFailureKeepsChild == []C34_Failed /\ [][C34_StopStep]_vars

\* the kill of a child that ignored every interrupt failed: handle kept
C34_Witness ==
    /\ StopReturned /\ unit.res = "IOError"
    /\ unit.ignores /\ unit.nint = 5 /\ unit.os = "alive"
    /\ is_running(unit.s)

\* the handler's thread has ended
HandlerEnded == h[1].pc \in {"closed", "panicked"}

\* C35: once the stream of a connection is closed or broken its handler
\* terminates, also when the reads of the stream keep failing.
C35_HandlerTerminates == ~conn.open ~> HandlerEnded

\* main has taken a code from the channel
Received == mpc \in {"lock", "stop_all", "stop_await", "exit"}

\* C36: a bind or accept failure requests shutdown with code 1: the server
\* thread sends 1 and spins; main, having received 1, exits only after
\* stop_all() has run, with the socket file not unlinked and with code 1, the
\* code it received first.
C36_FailureShutdown ==
    /\ apc = "spin" => (mcode = 1 /\ Received) \/ chan = <<1>>
    /\ (~Up /\ Received /\ mcode = 1)
          => /\ mpc = "exit"
             /\ exit_code = 1
             /\ sock # "removed"

\* main is inside stop_all()
InStopAll == mpc \in {"stop_all", "stop_await"}

\* the steps of stop_all(): it starts with every service to visit; a visit
\* calls stop() on a running service, whatever stop() returns, and leaves one
\* that is not running as it is; it returns when none is left to visit; no
\* step removes a definition, changes one or writes the file
C37_Step ==
    /\ (~InStopAll /\ InStopAll') => mtodo' = DOMAIN services
    /\ InStopAll
          => /\ DOMAIN services' = DOMAIN services
             /\ \A n \in DOMAIN services : services'[n].def = services[n].def
             /\ config' = config
             /\ \A n \in mtodo \ mtodo' :
                   IF is_running(services[n])
                   THEN \E st \in Service_stop(services[n]) \cup
                                  {StopAsyncFinish(services[n], w) : w \in BOOLEAN} :
                           services'[n] = st.svc
                   ELSE services'[n] = services[n]
             /\ \A n \in DOMAIN services \ (mtodo \ mtodo') : services'[n] = services[n]
             /\ ~InStopAll' => mtodo = {} /\ mpc' = "exit"

\* stop_all() is not abandoned with services left to visit
C37_NotAbandoned == InStopAll => Up

\* C37: stop_all() attempts stop() on every service running at that moment
\* and on no other; a failure to stop one does not prevent the attempt on the
\* others; it removes no definition and does not write the configuration
\* file.
C37_StopAllVisitsAll == []C37_NotAbandoned /\ [][C37_Step]_vars

\* a is the beginning of b
IsPrefix(a, b) == Len(a) <= Len(b) /\ SubSeq(b, 1, Len(a)) = a

\* the last snapshot is a beginning of the buffer; the bytes of one reader
\* are in the order it read them; every byte of a chunk but the first comes
\* right after the byte before it of the same chunk
C38_Buffer ==
    LET out == logs.output
    IN /\ IsPrefix(logs.snap, out)
       /\ \A p \in DOMAIN out : \A q \in DOMAIN out :
             (p < q /\ out[p][1] = out[q][1])
                => \/ out[p][2] < out[q][2]
                   \/ out[p][2] = out[q][2] /\ out[p][3] < out[q][3]
       /\ \A p \in DOMAIN out :
             out[p][3] > 1
                => p > 1 /\ out[p - 1] = <<out[p][1], out[p][2], out[p][3] - 1>>

\* no step takes anything out of the buffer, and a snapshot extends the one
\* before it
C38_Step ==
    /\ IsPrefix(logs.output, logs'.output)
    /\ IsPrefix(logs.snap, logs'.snap)

\* C38: a service's log buffer is append-only for the whole life of the
\* service: every get_logs() snapshot is a prefix of every later one, also
\* across the commands the service spawns; the chunks read from one stream
\* appear in read order; each chunk is appended contiguously, never
\* interleaved with part of a chunk of another reader.
C38_AppendOnly == []C38_Buffer /\ [][C38_Step]_vars

\* three whole chunks in the buffer, from both streams of the first command
\* and from the second command, a reader of the second command first; the
\* last snapshot holds some of them
C38_Witness ==
    /\ Len(logs.output) = MaxChunks * ChunkLen
    /\ logs.output[1][1][1] = 2
    /\ \E p \in DOMAIN logs.output : logs.output[p][1] = <<1, "stdout">>
    /\ \E p \in DOMAIN logs.output : logs.output[p][1] = <<1, "stderr">>
    /\ logs.snap # <<>> /\ logs.snap # logs.output

\* C39: every chunk the command of a service writes to stdout or stderr is
\* eventually appended to the service's log buffer, the reader threads being
\* scheduled fairly: a chunk waiting in a pipe is followed by one more chunk
\* of that stream in the buffer.
C39_ChunksReachLogs ==
    \A t \in Streams : \A k \in 0..MaxOut :
       (run.pipe[t] > 0 /\ ChunksOf(logs.output, <<1, t>>) = k)
          ~> (ChunksOf(logs.output, <<1, t>>) > k)

\* stop() called on a child that had exited: at most one interrupt and no
\* sleep; once try_wait has returned the exit status the child is reaped,
\* nothing is killed, stop() returns Ok, the handle is gone and the service
\* is not running
C40_Stopped ==
    (StopReturned /\ unit.gone)
       => /\ unit.nint <= 1 /\ unit.polls = 0 /\ unit.round = 0
          /\ unit.res = "Ok" => unit.nint = 1
          /\ unit.observed
                => /\ unit.res = "Ok" /\ ~unit.killed
                   /\ unit.s.child = "None" /\ ~is_running(unit.s)
                   /\ unit.os = "none"

\* the return of such a stop() leaves no process that was not waited on, and
\* the start() that follows it and succeeds spawns a new child
C40_Step ==
    /\ (unit.pc = "kill" /\ unit.gone /\ unit.observed)
          => /\ unit.os = "reaped"
             /\ unit'.zombies = unit.zombies /\ unit'.orphans = unit.orphans
    /\ (CallsStart /\ unit.op = "stop" /\ unit.gone /\ unit.res = "Ok")
          => /\ unit'.res \in {"Ok", "IOError"}
             /\ unit'.res = "Ok"
                   => /\ unit'.os = "alive" /\ unit'.s.child # "None"
                      /\ is_running(unit'.s)

====
